---------------------------- MODULE Spec2Model ----------------------------
(***************************************************************************)
(* The real-time output pipeline of libgambatte/libretro/libretro.cpp      *)
(* (SF2000 build): the frame pacer and variable-speed controller of        *)
(* retro_run / retro_run_internal, the growable audio output buffer and    *)
(* its batched upload to the host audio sink.                              *)
(*                                                                         *)
(* One call of retro_run_internal is split at the calls of the host audio  *)
(* sink: RunInternalDupe / RunInternalFrame run the call up to the first   *)
(* audio_batch_cb, UploadBatch is one iteration of the upload loop (one    *)
(* answer of the sink), RunInternalTail is the rest of the call.           *)
(*                                                                         *)
(* The buffer holds int16 elements; a stereo frame is two elements.  The   *)
(* element written as the i-th since the cursor was last reset carries the *)
(* value i; 0 stands for an element that was never written (garbage).      *)
(***************************************************************************)
EXTENDS Integers, Sequences, FiniteSets, TLC

(***************************** program constants ***************************)
SOUND_SAMPLES_PER_FRAME == 35112
SOUND_SAMPLES_PER_RUN == 2064
BLIP_BUFFER_SIZE == 1536
GB_SCREEN_WIDTH == 160
VIDEO_HEIGHT == 144
VIDEO_PITCH == 256
AUDIO_BATCH_FRAMES_INIT == 65536

VIDEO_WIDTH == GB_SCREEN_WIDTH

(******************************* model bounds ******************************)
\* Ticks of the splash period.  The source sets SF2000_SPLASH_DURATION to 180;
\* every splash tick takes the same path, the model keeps the period short.
SF2000_SPLASH_DURATION == 2
\* Native samples per output frame of the resampler backends (cc_resampler.h
\* and blipper are not part of the sources at hand; the SF2000 build reports
\* NATIVE / 65.536 for both).  Scaled so that a video frame is a few output
\* frames.
DecimationRate == 8778
\* What the environment does in a run of the model: calls of
\* retro_run_internal the host makes, option-update passes
\* (GET_VARIABLE_UPDATE answering true), answers of the host audio sink that
\* differ from the count offered, rising edges of the two speed chords.
MaxTicks == 7
MaxOptionUpdates == 1
MaxShortAccepts == 2
MaxChordEdges == 2
\* Sessions the host starts after the first: retro_unload_game, retro_deinit
\* and retro_init or not, then retro_load_game again.
MaxReloads == 1
\* The screen: VIDEO_WIDTH x VIDEO_HEIGHT pixels in a buffer of VIDEO_PITCH
\* pixels a row, scaled down from 160 x 144 in rows of 256.  Feeds of a blend
\* kernel in the kernel-only runs of KernelSpec.
FrameWidth == 2
FrameHeight == 2
FramePitch == 3
MaxFeeds == 2
\* Calls into the fake RTC in the runs of RtcSpec.
MaxRtcCalls == 4
\* The output buffer on its own (BufferSpec): the size it starts with, the
\* frames of one write, the writes of a run.
MaxBufferSize == 24
MaxWriteFrames == 7
MaxBufferWrites == 4

\* One emulation step (the runFor loop of one frame): <<n, last>> is n calls
\* of runFor returning -1 with SOUND_SAMPLES_PER_RUN samples each, then the
\* call that completes the frame, returning `last` samples.
\*   <<8, 1044>>  half a frame's worth      <<17, 24>>  exactly one frame
\*   <<34, 48>>   two frames' worth         <<51, 72>>  three frames' worth
StepShapes == { <<8, 1044>>, <<17, 24>>, <<34, 48>>, <<51, 72>> }

\* The colours of the pictures: black, white, the lowest bit of every
\* channel (0x0821), the highest bit of every channel (0x8410), full blue
\* (0x001F) and the background of the splash screen (0xFD3C).
Palette == {0, 65535, 2081, 33808, 31, 64828}

\* A picture the core draws: colour `even` where x + y is even, `odd`
\* elsewhere.
Pictures == [even : Palette, odd : Palette]

Chequered == [even |-> 65535, odd |-> 0]
Faint == [even |-> 2081, odd |-> 33808]

\* A run of the model is one of these.  env is what the environment may
\* still do and what it may show: ticks, updates, shorts, edges as above;
\* loads, the calls of retro_load_game the host still makes; shapes, the step
\* shapes the core shows; audio, resampler, the values the user gives the
\* options gambatte_fast_forward_audio (enabled or not) and
\* gambatte_audio_resampler; ok, what blipper_new may answer;
\* set_variable, whether the host supports SET_VARIABLE; blend, the values
\* the user gives the option gambatte_mix_frames; pictures, what the core
\* draws; mallocs, the calls of malloc for a retained frame buffer that
\* still succeed.
\*  - a steady host, any step shape, a player working the speed chords;
\*  - a host that throttles audio and changes options, whole-frame steps, a
\*    player who changes speed at most once;
\*  - a longer session of one-frame steps, a player who works the chords
\*    once more;
\*  - a platform where the band-limited resampler may fail to build, a host
\*    that changes options and starts another session;
\*  - a user who goes through the blend filters while the picture changes,
\*    on a platform with memory for one retained buffer or for all of them.
Scenarios ==
  { [ticks |-> MaxTicks, updates |-> 0, shorts |-> 0,
     edges |-> MaxChordEdges, loads |-> 1, shapes |-> StepShapes,
     audio |-> {FALSE}, resampler |-> {"cc"}, ok |-> {TRUE},
     set_variable |-> TRUE, blend |-> {"mix"}, pictures |-> {Chequered},
     mallocs |-> 4],
    [ticks |-> MaxTicks - 3, updates |-> MaxOptionUpdates,
     shorts |-> MaxShortAccepts, edges |-> 1, loads |-> 1,
     shapes |-> { <<17, 24>>, <<51, 72>> },
     audio |-> BOOLEAN, resampler |-> {"cc", "sinc"}, ok |-> {TRUE},
     set_variable |-> TRUE, blend |-> {"disabled"}, pictures |-> {Chequered},
     mallocs |-> 4],
    [ticks |-> MaxTicks + 1, updates |-> 0, shorts |-> 0,
     edges |-> MaxChordEdges + 1, loads |-> 1, shapes |-> { <<17, 24>> },
     audio |-> {FALSE}, resampler |-> {"cc"}, ok |-> {TRUE},
     set_variable |-> TRUE, blend |-> {"disabled"}, pictures |-> {Chequered},
     mallocs |-> 4] }
  \cup
  { [ticks |-> MaxTicks - 4, updates |-> MaxOptionUpdates + 1, shorts |-> 0,
     edges |-> 1, loads |-> MaxReloads + 1, shapes |-> { <<17, 24>> },
     audio |-> {TRUE}, resampler |-> {"cc", "sinc"}, ok |-> BOOLEAN,
     set_variable |-> sv, blend |-> {"absent"}, pictures |-> {Chequered},
     mallocs |-> 4] : sv \in BOOLEAN }
  \cup
  { [ticks |-> MaxTicks - 4, updates |-> MaxOptionUpdates + 1, shorts |-> 0,
     edges |-> 1, loads |-> 1, shapes |-> { <<17, 24>> },
     audio |-> {TRUE}, resampler |-> {"cc"}, ok |-> {TRUE},
     set_variable |-> TRUE,
     blend |-> {"absent", "disabled", "mix", "lcd_ghosting", "ultra_fast"},
     pictures |-> {Chequered, Faint}, mallocs |-> m] : m \in {1, 8} }

StepSamples(shape) == shape[1] * SOUND_SAMPLES_PER_RUN + shape[2]

VARIABLES
  pc,                       \* "host" | "internal" | "upload" | "tail" while
                            \* a game is loaded; "unloaded" | "deinit" while
                            \* none is (after retro_init or
                            \* retro_unload_game, after retro_deinit);
                            \* "buffer" in the buffer-only runs of BufferSpec
  iters_left,               \* retro_run: calls of retro_run_internal still to make
  samples_count,            \* static of retro_run_internal
  frames_count,             \* static of retro_run_internal
  sf2000_fastforward_state,
  sf2000_slowmotion_state,
  sf2000_select_a_prev,
  sf2000_select_b_prev,
  sf2000_slowmotion_frame_counter,
  sf2000_splash_shown,
  sf2000_splash_timer,
  fast_forward_audio_enabled,
  use_cc_resampler,
  resampler,                \* [phase, avail]: state of the resampler backend
  blend_frames,             \* the blend function pointer: "NULL" or a kernel
  audio_out_buffer,         \* the written prefix of the buffer (int16 elements)
  audio_out_buffer_size,
  audio_out_buffer_pos,
  audio_batch_frames_max,
  upload,                   \* locals of audio_upload_samples: [num_samples, ptr]
  tick,                     \* what the current / last retro_run_internal call did
  drain,                    \* what the current / last audio_upload_samples call did
  host_fps,                 \* fps multiplier the host was told last: by
                            \* SET_SYSTEM_AV_INFO, or by the query that
                            \* follows retro_load_game
  libretro_supports_set_variable,
  gambatte_audio_resampler, \* the option as the host holds it: "cc" | "sinc"
  setup,                    \* what the calls of audio_resampler_init did
  frame_blend_type,
  video_buf,                \* the frame buffer, or NullBuffer
  video_buf_prev,           \* video_buf_prev_1 .. 4: frames or NullBuffer
  frame,                    \* what the frames delivered so far went through
  g_fake_rtc,               \* the FakeRtc object, or NoFakeRtc
  g_fake_rtc_initialized,
  rtc_host,                 \* the clock, the save file and the fake RTC
                            \* options of the host, and the last call made
  env                       \* what the environment may still do (see Scenarios)

vars == << pc, iters_left, samples_count, frames_count,
           sf2000_fastforward_state, sf2000_slowmotion_state,
           sf2000_select_a_prev, sf2000_select_b_prev,
           sf2000_slowmotion_frame_counter, sf2000_splash_shown,
           sf2000_splash_timer, fast_forward_audio_enabled,
           use_cc_resampler, resampler, blend_frames, audio_out_buffer,
           audio_out_buffer_size, audio_out_buffer_pos,
           audio_batch_frames_max, upload, tick, drain, host_fps,
           libretro_supports_set_variable, gambatte_audio_resampler, setup,
           frame_blend_type, video_buf, video_buf_prev, frame,
           g_fake_rtc, g_fake_rtc_initialized, rtc_host, env >>

video_vars == << frame_blend_type, video_buf, video_buf_prev, frame >>

rtc_vars == << g_fake_rtc, g_fake_rtc_initialized, rtc_host >>


(***************************** the output buffer ***************************)
\* The operators below work on a record `a` of the audio state:
\*   buf, size, pos, max      audio_out_buffer, _size, _pos, audio_batch_frames_max
\*   cc, phase, avail         use_cc_resampler and the backend's state
\*   written, pushed, writes  elements written since the cursor was reset, raw
\*                            samples pushed into the resampler and writes into
\*                            the buffer made by the running call
\*   regrown                  reallocations of the running call that had
\*                            written elements to carry over
\*   inside                   every store of the running call stayed inside
\*                            the allocation

\* size_t buffer_size = (((size_t)samples_per_frame + 1) << 1) << 1
OutBufferInitSize == (((SOUND_SAMPLES_PER_FRAME \div DecimationRate) + 1) * 2) * 2

audio_out_buffer_init(a) ==
  [a EXCEPT !.buf = << >>, !.size = OutBufferInitSize, !.pos = 0,
            !.max = AUDIO_BATCH_FRAMES_INIT]

audio_out_buffer_deinit(a) ==
  [a EXCEPT !.buf = << >>, !.size = 0, !.pos = 0,
            !.max = AUDIO_BATCH_FRAMES_INIT]

\* Variant: a reallocation that carries over half of the written elements.
Memcpy_Half(src, n) ==
  [i \in 1..n |-> IF i <= n \div 2 /\ i <= Len(src) THEN src[i] ELSE 0]

\* memcpy(dst, src, n elements) into a fresh allocation: the first n elements
\* of src, elements src does not hold read as garbage.
Memcpy(src, n) == [i \in 1..n |-> IF i <= Len(src) THEN src[i] ELSE 0]

\* Variant: the capacity taken in elements, not in stereo frames.
audio_out_buffer_resize_NoShift(a, num_samples) ==
  LET buffer_capacity == a.size - a.pos
  IN  IF buffer_capacity < num_samples
      THEN LET grown == a.size + ((num_samples - buffer_capacity) * 2)
               tmp_buffer_size == (grown * 2) - (grown \div 2)
           IN  [a EXCEPT !.buf = Memcpy(a.buf, a.pos),
                         !.size = tmp_buffer_size,
                         !.regrown = IF a.pos > 0 THEN @ + 1 ELSE @]
      ELSE a

audio_out_buffer_resize(a, num_samples) ==
  LET buffer_capacity == (a.size - a.pos) \div 2
  IN  IF buffer_capacity < num_samples
      THEN LET grown == a.size + ((num_samples - buffer_capacity) * 2)
               tmp_buffer_size == (grown * 2) - (grown \div 2)
           IN  [a EXCEPT !.buf = Memcpy(a.buf, a.pos),
                         !.size = tmp_buffer_size,
                         !.regrown = IF a.pos > 0 THEN @ + 1 ELSE @]
      ELSE a

\* The elements the next write of num_samples frames stores: numbered on
\* from the elements written since the cursor was last reset.
FreshSamples(a, num_samples) ==
  [i \in 1..(2 * num_samples) |-> a.written + i]

\* memcpy(audio_out_buffer + audio_out_buffer_pos, samples, ...): `samples`
\* lands at offset pos; offsets below pos keep what the buffer holds.
StoreAt(buf, pos, samples) ==
  [i \in 1..(pos + Len(samples)) |->
     IF i > pos THEN samples[i - pos]
     ELSE IF i <= Len(buf) THEN buf[i] ELSE 0]

audio_out_buffer_write(a, num_samples) ==
  LET r == audio_out_buffer_resize(a, num_samples)
  IN  [r EXCEPT !.buf = StoreAt(r.buf, r.pos, FreshSamples(a, num_samples)),
                !.pos = r.pos + (num_samples * 2),
                !.written = a.written + (num_samples * 2),
                !.writes = a.writes + 1,
                !.inside = a.inside /\ (r.pos + (num_samples * 2) <= r.size)]

\* blipper_read of num_samples frames per channel into the buffer at pos.
audio_out_buffer_read_blipper(a, num_samples) ==
  LET r == audio_out_buffer_resize(a, num_samples)
  IN  [r EXCEPT !.buf = StoreAt(r.buf, r.pos, FreshSamples(a, num_samples)),
                !.pos = r.pos + (num_samples * 2),
                !.written = a.written + (num_samples * 2),
                !.writes = a.writes + 1,
                !.inside = a.inside /\ (r.pos + (num_samples * 2) <= r.size),
                !.avail = a.avail - num_samples]

(***************************** the resampler *******************************)
\* Cosine backend: every DecimationRate native samples give one output frame,
\* written to the output buffer at once; the remainder stays in the phase.
CC_renderaudio(a, frames) ==
  LET total == a.phase + frames
      w == audio_out_buffer_write(a, total \div DecimationRate)
  IN  [w EXCEPT !.phase = total % DecimationRate, !.pushed = a.pushed + frames]

\* Band-limited backend: pushed samples become output frames the caller
\* polls (blipper_read_avail) and reads.
blipper_push_samples(a, frames) ==
  LET total == a.phase + frames
  IN  [a EXCEPT !.phase = total % DecimationRate,
                !.avail = a.avail + (total \div DecimationRate)]

blipper_renderaudio(a, frames) ==
  IF frames = 0 THEN a
  ELSE [blipper_push_samples(a, frames) EXCEPT !.pushed = a.pushed + frames]

\* The body of the runFor loops at normal speed and in slow motion with
\* audio enabled: one raw block of `samples` goes into the resampler.
RenderBlockInLoop(a, samples) ==
  IF a.cc THEN CC_renderaudio(a, samples)
  ELSE LET b == blipper_renderaudio(a, samples)
       IN  IF b.avail >= BLIP_BUFFER_SIZE \div 2
           THEN audio_out_buffer_read_blipper(b, b.avail)
           ELSE b

\* After the loops: the last block goes into the resampler and everything
\* the band-limited backend holds is read out.
RenderBlockFinal(a, samples) ==
  IF a.cc THEN CC_renderaudio(a, samples)
  ELSE LET b == blipper_renderaudio(a, samples)
       IN  audio_out_buffer_read_blipper(b, b.avail)

(************************* the speed controller ****************************)
\* unsigned speed_multiplier = (sf2000_fastforward_state == 1) ? 3 : 5
SpeedMultiplier(ff) == IF ff = 1 THEN 3 ELSE 5

\* The fps retro_get_system_av_info reports, as a multiple of
\* VIDEO_REFRESH_RATE.
retro_get_system_av_info(ff) == IF ff > 0 THEN SpeedMultiplier(ff) ELSE 1

\* Variant: the chord triggers by its level, not by its rising edge.
SelectAEdge_Level(sp, select, a) == select /\ a

\* The SF2000 part of update_input_state (the bitmask branch and the polled
\* branch hold the same code).  sp is the record of the controller's state:
\* ff, slow, a_prev, b_prev, counter, fps (the fps last notified).
SelectAEdge(sp, select, a) == (select /\ a) /\ ~sp.a_prev
SelectBEdge(sp, select, b) == (select /\ b) /\ ~sp.b_prev

\* Variant: the SELECT+B edge leaves the fast-forward state alone.
update_input_state_KeepFastForward(sp, select, a, b) ==
  LET s1 == IF SelectAEdge(sp, select, a)
            THEN [sp EXCEPT !.slow = 0, !.counter = 0,
                            !.ff = (sp.ff + 1) % 3,
                            !.fps = retro_get_system_av_info((sp.ff + 1) % 3)]
            ELSE sp
      s2 == [s1 EXCEPT !.a_prev = (select /\ a)]
      s3 == IF SelectBEdge(sp, select, b)
            THEN [s2 EXCEPT !.slow = (s2.slow + 1) % 3, !.counter = 0]
            ELSE s2
  IN  [s3 EXCEPT !.b_prev = (select /\ b)]

update_input_state(sp, select, a, b) ==
  LET s1 == IF SelectAEdge(sp, select, a)
            THEN [sp EXCEPT !.slow = 0, !.counter = 0,
                            !.ff = (sp.ff + 1) % 3,
                            !.fps = retro_get_system_av_info((sp.ff + 1) % 3)]
            ELSE sp
      s2 == [s1 EXCEPT !.a_prev = (select /\ a)]
      s3 == IF SelectBEdge(sp, select, b)
            THEN [s2 EXCEPT !.ff = 0, !.slow = (s2.slow + 1) % 3,
                            !.counter = 0]
            ELSE s2
  IN  [s3 EXCEPT !.b_prev = (select /\ b)]

Speed ==
  [ff |-> sf2000_fastforward_state, slow |-> sf2000_slowmotion_state,
   a_prev |-> sf2000_select_a_prev, b_prev |-> sf2000_select_b_prev,
   counter |-> sf2000_slowmotion_frame_counter, fps |-> host_fps]

\* Rising edges the buttons produce in this poll.
Edges(select, a, b) ==
  (IF SelectAEdge(Speed, select, a) THEN 1 ELSE 0)
  + (IF SelectBEdge(Speed, select, b) THEN 1 ELSE 0)

(************************* the emulation steps *****************************)
\* The audio state a call of retro_run_internal starts from.
Audio ==
  [buf |-> audio_out_buffer, size |-> audio_out_buffer_size,
   pos |-> audio_out_buffer_pos, max |-> audio_batch_frames_max,
   cc |-> use_cc_resampler, phase |-> resampler.phase,
   avail |-> resampler.avail, l |-> resampler.l, r |-> resampler.r,
   written |-> audio_out_buffer_pos, pushed |-> 0, writes |-> 0,
   inside |-> TRUE, regrown |-> 0]

\* n in-loop blocks of SOUND_SAMPLES_PER_RUN samples, each pushed into the
\* resampler when `render` holds.  (The cursor is never negative: the test
\* makes the audio state of each block a value before the next is built.)
RECURSIVE LoopBlocks(_, _, _)
LoopBlocks(a, n, render) ==
  IF n = 0 \/ ~render \/ a.pos < 0 THEN a
  ELSE LoopBlocks(RenderBlockInLoop(a, SOUND_SAMPLES_PER_RUN), n - 1, render)

\* The result of the part of retro_run_internal between the dupe test and the
\* blend: e.a the audio state, e.sc samples_count, e.samples the local
\* `samples`, e.steps the emulation steps run, e.blocks the raw blocks the
\* core returned, e.returned the raw samples of those blocks.

\* Normal speed: every in-loop block is rendered and counted.
EmulateNormal(a, sc, shape) ==
  [a |-> LoopBlocks(a, shape[1], TRUE),
   sc |-> sc + shape[1] * SOUND_SAMPLES_PER_RUN,
   samples |-> shape[2], steps |-> 1, blocks |-> shape[1] + 1,
   returned |-> StepSamples(shape)]

\* Fast forward: `iterations` steps, shapes[i] the shape of step i.  In-loop
\* blocks are counted but not rendered; `samples` is set back to
\* SOUND_SAMPLES_PER_RUN at the top of every iteration.
RECURSIVE SumLoop(_, _)
SumLoop(shapes, i) ==
  IF i = 0 THEN 0 ELSE shapes[i][1] + SumLoop(shapes, i - 1)

RECURSIVE SumAll(_, _)
SumAll(shapes, i) ==
  IF i = 0 THEN 0 ELSE StepSamples(shapes[i]) + SumAll(shapes, i - 1)

EmulateFastForward(a, sc, shapes) ==
  LET iterations == Len(shapes)
  IN  [a |-> a,
       sc |-> sc + SumLoop(shapes, iterations) * SOUND_SAMPLES_PER_RUN,
       samples |-> shapes[iterations][2], steps |-> iterations,
       blocks |-> SumLoop(shapes, iterations) + iterations,
       returned |-> SumAll(shapes, iterations)]

\* Variant: level 2 runs a step on every 4th tick.
ShouldRunFrame_EveryFourth(slow, counter) ==
  IF slow = 1 THEN counter % 2 = 0
  ELSE IF slow = 2 THEN counter % 4 = 0
  ELSE FALSE

\* Slow motion: the step runs when the phase counter says so; blocks are
\* rendered only while audio during fast forward is enabled.
ShouldRunFrame(slow, counter) ==
  IF slow = 1 THEN counter % 2 = 0
  ELSE IF slow = 2 THEN counter % 5 = 0
  ELSE FALSE

EmulateSlowMotion(a, sc, shape, run, audio_enabled) ==
  IF run
  THEN [a |-> LoopBlocks(a, shape[1], audio_enabled),
        sc |-> sc + shape[1] * SOUND_SAMPLES_PER_RUN,
        samples |-> shape[2], steps |-> 1, blocks |-> shape[1] + 1,
        returned |-> StepSamples(shape)]
  ELSE [a |-> a, sc |-> sc, samples |-> SOUND_SAMPLES_PER_RUN, steps |-> 0,
        blocks |-> 0, returned |-> 0]

\* Splash period: the core does not run, `samples` keeps its initial value.
EmulateSplash(a, sc) ==
  [a |-> a, sc |-> sc, samples |-> SOUND_SAMPLES_PER_RUN, steps |-> 0,
   blocks |-> 0, returned |-> 0]

InSplash == ~sf2000_splash_shown /\ sf2000_splash_timer < SF2000_SPLASH_DURATION

\* The steps of one fast-forward tick all have the shape `shape`.
FastForwardShapes(ff, shape) == [i \in 1..SpeedMultiplier(ff) |-> shape]

Emulate(sp, shape) ==
  IF InSplash THEN EmulateSplash(Audio, samples_count)
  ELSE IF sp.ff > 0
  THEN EmulateFastForward(Audio, samples_count, FastForwardShapes(sp.ff, shape))
  ELSE IF sp.slow > 0
  THEN EmulateSlowMotion(Audio, samples_count, shape,
                         ShouldRunFrame(sp.slow, sp.counter),
                         fast_forward_audio_enabled)
  ELSE EmulateNormal(Audio, samples_count, shape)

\* Variant: the upload leaves the cursor where it was.
ResetCursor_Kept(pos) == pos

\* audio_out_buffer_pos = 0: how audio_upload_samples leaves the cursor, on
\* the muted return and after the loop.
ResetCursor(pos) == 0

\* Variant: only fast forward mutes the upload.
UploadMuted_FastForwardOnly(ff, slow, audio_enabled) ==
  ff > 0 /\ ~audio_enabled

\* audio_upload_samples skips the upload in this state.
UploadMuted(ff, slow, audio_enabled) == (ff > 0 \/ slow > 0) /\ ~audio_enabled

(***************************** resampler set-up ****************************)
\* audio_resampler_deinit and audio_resampler_init on the audio record.
\* left_ok / right_ok: whether blipper_new succeeds for the channel.
audio_resampler_deinit(a) ==
  audio_out_buffer_deinit([a EXCEPT !.l = "NULL", !.r = "NULL"])

audio_resampler_init(a, left_ok, right_ok) ==
  IF a.cc
  THEN audio_out_buffer_init([a EXCEPT !.phase = 0, !.avail = 0])
  ELSE IF left_ok /\ right_ok
  THEN audio_out_buffer_init([a EXCEPT !.l = "blipper", !.r = "blipper",
                                        !.phase = 0, !.avail = 0])
  ELSE audio_out_buffer_init(
         [audio_resampler_deinit(a) EXCEPT !.cc = TRUE, !.phase = 0, !.avail = 0])

\* blipper_new failed for a channel: if (!resampler_l || !resampler_r)
ConstructionFails(a, left_ok, right_ok) == ~a.cc /\ ~(left_ok /\ right_ok)

\* info->timing.sample_rate of retro_get_system_av_info, either backend.
SampleRate == 32000

\* Variant: the failure is never followed by SET_SYSTEM_AV_INFO.
NotifiesAvInfo_Never(startup) == FALSE

\* if (!startup): audio_resampler_init tells the host of the sample rate
\* after a failure.
NotifiesAvInfo(startup) == ~startup

\* The record of the calls of audio_resampler_init after one more call, made
\* on the audio state a.
SetupRecord(su, a, left_ok, right_ok, startup) ==
  LET failed == ConstructionFails(a, left_ok, right_ok)
      told == failed /\ NotifiesAvInfo(startup)
  IN  [calls |-> su.calls + 1, startup |-> startup, failed |-> failed,
       notices |-> IF failed THEN su.notices + 1 ELSE su.notices,
       av_info |-> IF told THEN 1 ELSE 0,
       rate |-> IF told THEN SampleRate ELSE 0]

\* The option as the host holds it after the call: SET_VARIABLE writes "cc"
\* after a failure, on a host that supports it.
OptionAfterInit(option, a, left_ok, right_ok, supports_set_variable) ==
  IF ConstructionFails(a, left_ok, right_ok) /\ supports_set_variable
  THEN "cc" ELSE option

(***************************** interframe blending *************************)
\* gambatte::video_pixel_t is a 16-bit RGB565 pixel: red in bits 11..15,
\* green in bits 5..10, blue in bits 0..4.  A frame buffer is a sequence of
\* FramePitch * FrameHeight pixels, row after row; the pixel at offset i
\* (from 0) is element i + 1.
PixelRange == 2 ^ 16

\* Bit n of x ^ y, in its place.
XorBit(x, y, n) == (((x \div (2 ^ n)) + (y \div (2 ^ n))) % 2) * (2 ^ n)

\* (x ^ y) & 0x821: the lowest bit of blue, of green and of red.
XorMasked(x, y) == XorBit(x, y, 0) + XorBit(x, y, 5) + XorBit(x, y, 11)

BufferPixels == FramePitch * FrameHeight

\* The offset lies in the visible part of its row.
Visible(i) == (i % FramePitch) < FrameWidth

ZeroFrame == [i \in 1..BufferPixels |-> 0]

\* A buffer pointer that is NULL, and the four retained buffers when none is
\* allocated.
NullBuffer == << >>
NoBuffers == << NullBuffer, NullBuffer, NullBuffer, NullBuffer >>

\* sf2000_draw_splash_screen: the whole buffer in the background colour (the
\* text lies outside the scaled-down screen).
bg_color == 64828
SplashFrame == [i \in 1..BufferPixels |-> bg_color]

\* gb.runFor writes the visible pixels of video_buf and leaves the rest of
\* each row alone.
PictureAt(picture, i) ==
  IF ((i % FramePitch) + (i \div FramePitch)) % 2 = 0
  THEN picture.even ELSE picture.odd

runFor(buf, picture) ==
  [i \in 1..BufferPixels |->
     IF Visible(i - 1) THEN PictureAt(picture, i - 1) ELSE buf[i]]

\* (rgb_curr + rgb_prev + ((rgb_curr ^ rgb_prev) & 0x821)) >> 1, on one
\* pixel; the sum is taken in int, the result stored in 16 bits.

\* Variant: the mask term subtracted, as in the trick's rounding-down form.
MixPixel_RoundDown(rgb_curr, rgb_prev) ==
  ((rgb_curr + rgb_prev - XorMasked(rgb_curr, rgb_prev)) \div 2) % PixelRange

MixPixel(rgb_curr, rgb_prev) ==
  ((rgb_curr + rgb_prev + XorMasked(rgb_curr, rgb_prev)) \div 2) % PixelRange

\* The same on two pixels at once, in one uint32_t (lo: the pixel at the
\* lower address, the build being little-endian): (curr_pair + prev_pair +
\* ((curr_pair ^ prev_pair) & 0x08210821)) >> 1.  The 32-bit sum is taken
\* half by half: the carry of the low half goes into the high half, the
\* carry of the high half is lost, bit 16 of the sum comes down into the low
\* half.
PairHalves(lo_sum, hi_sum) ==
  [lo |-> ((lo_sum % PixelRange) \div 2)
            + ((((hi_sum + (lo_sum \div PixelRange)) % PixelRange) % 2)
                 * (PixelRange \div 2)),
   hi |-> ((hi_sum + (lo_sum \div PixelRange)) % PixelRange) \div 2]

MixPair(curr_lo, curr_hi, prev_lo, prev_hi) ==
  PairHalves(curr_lo + prev_lo + XorMasked(curr_lo, prev_lo),
             curr_hi + prev_hi + XorMasked(curr_hi, prev_hi))

\* A blend kernel takes the current frame and the four retained buffers
\* (video_buf_prev_1 .. 4, NullBuffer when not allocated) and gives the new
\* current frame and the new retained buffers.

\* blend_frames_mix as built for other architectures: row by row, the
\* visible pixels of each row.
blend_frames_mix_portable(curr, prev) ==
  [curr |-> [i \in 1..BufferPixels |->
               IF Visible(i - 1) THEN MixPixel(curr[i], prev[1][i])
               ELSE curr[i]],
   prev |-> [prev EXCEPT ![1] =
               [i \in 1..BufferPixels |->
                  IF Visible(i - 1) THEN curr[i] ELSE prev[1][i]]]]

\* blend_frames_mix as built for MIPS: the first VIDEO_HEIGHT * VIDEO_WIDTH
\* pixels of the buffer, two at a time, and the last one alone when their
\* number is odd.
MixPairs(curr, prev, pixels_32, total_pixels, pairs) ==
  [curr |-> [i \in 1..BufferPixels |->
               IF i - 1 < 2 * pixels_32
               THEN IF (i - 1) % 2 = 0 THEN pairs[(i + 1) \div 2].lo
                    ELSE pairs[(i + 1) \div 2].hi
               ELSE IF i - 1 < total_pixels
               THEN MixPixel(curr[i], prev[1][i])
               ELSE curr[i]],
   prev |-> [prev EXCEPT ![1] =
               [i \in 1..BufferPixels |->
                  IF i - 1 < total_pixels THEN curr[i] ELSE prev[1][i]]]]

blend_frames_mix(curr, prev) ==
  MixPairs(curr, prev, (FrameHeight * FrameWidth) \div 2,
           FrameHeight * FrameWidth,
           [k \in 1..((FrameHeight * FrameWidth) \div 2) |->
              MixPair(curr[2 * k - 1], curr[2 * k],
                      prev[1][2 * k - 1], prev[1][2 * k])])

\* The channels the ghosting kernels unpack and repack: five bits of red,
\* five of green taken from bit 6 up, five of blue.
Red(p) == (p \div 2048) % 32
Green(p) == (p \div 64) % 32
Blue(p) == p % 32
Pack(r, g, b) == (r * 2048) + (g * 64) + b

Clamp(v) == IF v > 31 THEN 31 ELSE IF v < 0 THEN 0 ELSE v

\* frame_blend_response_int: LCD_RESPONSE_TIME (0.333f) to the powers 1..4,
\* times 256, truncated.
frame_blend_response_int == << 85, 28, 9, 3 >>

\* Variant: the 8.8 value is truncated, not rounded.
GhostChannel_Truncated(c, p1, p2, p3, p4) ==
  LET accum == (c * 256)
                 + ((p1 - c) * frame_blend_response_int[1])
                 + ((p2 - c) * frame_blend_response_int[2])
                 + ((p3 - c) * frame_blend_response_int[3])
                 + ((p4 - c) * frame_blend_response_int[4])
  IN  Clamp(accum \div 256)

\* One channel of blend_frames_lcd_ghost, in 8.8 fixed point.
GhostChannel(c, p1, p2, p3, p4) ==
  LET accum == (c * 256)
                 + ((p1 - c) * frame_blend_response_int[1])
                 + ((p2 - c) * frame_blend_response_int[2])
                 + ((p3 - c) * frame_blend_response_int[3])
                 + ((p4 - c) * frame_blend_response_int[4])
  IN  Clamp((accum + 128) \div 256)

GhostPixel(c, p1, p2, p3, p4) ==
  Pack(GhostChannel(Red(c), Red(p1), Red(p2), Red(p3), Red(p4)),
       GhostChannel(Green(c), Green(p1), Green(p2), Green(p3), Green(p4)),
       GhostChannel(Blue(c), Blue(p1), Blue(p2), Blue(p3), Blue(p4)))

\* Variant: only the newest retained buffer is written.
blend_frames_lcd_ghost_NoShift(curr, prev) ==
  [curr |-> [i \in 1..BufferPixels |->
               IF Visible(i - 1)
               THEN GhostPixel(curr[i], prev[1][i], prev[2][i],
                               prev[3][i], prev[4][i])
               ELSE curr[i]],
   prev |-> [prev EXCEPT ![1] =
               [i \in 1..BufferPixels |->
                  IF Visible(i - 1) THEN curr[i] ELSE prev[1][i]]]]

\* blend_frames_lcd_ghost: row by row; the four retained buffers move on by
\* one frame.
blend_frames_lcd_ghost(curr, prev) ==
  LET Shift(new, old) ==
        [i \in 1..BufferPixels |-> IF Visible(i - 1) THEN new[i] ELSE old[i]]
  IN  [curr |-> [i \in 1..BufferPixels |->
                   IF Visible(i - 1)
                   THEN GhostPixel(curr[i], prev[1][i], prev[2][i],
                                   prev[3][i], prev[4][i])
                   ELSE curr[i]],
       prev |-> << Shift(curr, prev[1]), Shift(prev[1], prev[2]),
                   Shift(prev[2], prev[3]), Shift(prev[3], prev[4]) >>]

\* static_cast<int>(LCD_RESPONSE_TIME_FAKE * 256.0f)
fade_factor == 128
curr_factor == 256 - fade_factor

FastGhostChannel(c, p) ==
  LET mix == ((c * curr_factor) + (p * fade_factor)) \div 256
  IN  IF mix > 31 THEN 31 ELSE mix

\* 3/4 current + 1/4 previous
UltraFastChannel(c, p) == ((c * 3) + p) \div 4

LinearChannel(fn, c, p) ==
  IF fn = "blend_frames_ultra_fast" THEN UltraFastChannel(c, p)
  ELSE FastGhostChannel(c, p)

\* The kernels that walk the first VIDEO_HEIGHT * VIDEO_WIDTH pixels of the
\* buffer one by one (MIPS build).
LinearKernel(fn, curr, prev) ==
  LET total_pixels == FrameHeight * FrameWidth
  IN  [curr |-> [i \in 1..BufferPixels |->
                   IF i - 1 < total_pixels
                   THEN Pack(LinearChannel(fn, Red(curr[i]), Red(prev[1][i])),
                             LinearChannel(fn, Green(curr[i]),
                                           Green(prev[1][i])),
                             LinearChannel(fn, Blue(curr[i]),
                                           Blue(prev[1][i])))
                   ELSE curr[i]],
       prev |-> [prev EXCEPT ![1] =
                   [i \in 1..BufferPixels |->
                      IF i - 1 < total_pixels THEN curr[i] ELSE prev[1][i]]]]

blend_frames_lcd_ghost_fast(curr, prev) ==
  LinearKernel("blend_frames_lcd_ghost_fast", curr, prev)

blend_frames_ultra_fast(curr, prev) ==
  LinearKernel("blend_frames_ultra_fast", curr, prev)

BlendFunctions ==
  {"NULL", "blend_frames_mix", "blend_frames_lcd_ghost",
   "blend_frames_lcd_ghost_fast", "blend_frames_ultra_fast"}

\* blend_frames(): the call through the function pointer.
CallBlend(fn, curr, prev) ==
  CASE fn = "blend_frames_mix" -> blend_frames_mix(curr, prev)
    [] fn = "blend_frames_lcd_ghost" -> blend_frames_lcd_ghost(curr, prev)
    [] fn = "blend_frames_lcd_ghost_fast" ->
         blend_frames_lcd_ghost_fast(curr, prev)
    [] fn = "blend_frames_ultra_fast" -> blend_frames_ultra_fast(curr, prev)
    [] fn = "blend_frames_mix_portable" ->
         blend_frames_mix_portable(curr, prev)

\* The retained buffers a kernel reads and writes.
BuffersUsed(fn) ==
  IF fn = "NULL" THEN {}
  ELSE IF fn = "blend_frames_lcd_ghost" THEN 1..4 ELSE {1}

\* The blend state: type, fn, prev stand for frame_blend_type, blend_frames
\* and video_buf_prev_1 .. 4.  `mallocs` is the number of calls of malloc
\* that succeed from here on.
FrameBlendTypes ==
  {"FRAME_BLEND_NONE", "FRAME_BLEND_MIX", "FRAME_BLEND_LCD_GHOSTING",
   "FRAME_BLEND_LCD_GHOSTING_FAST", "FRAME_BLEND_ULTRA_FAST"}

\* Variant: a buffer that exists is kept as it is.
allocate_video_buf_prev_NoClear(buf, mallocs) ==
  IF buf = NullBuffer
  THEN IF mallocs > 0 THEN ZeroFrame ELSE NullBuffer
  ELSE buf

\* allocate_video_buf_prev: malloc when there is no buffer, then memset 0.
\* NullBuffer stands for the failure.
allocate_video_buf_prev(buf, mallocs) ==
  IF buf = NullBuffer
  THEN IF mallocs > 0 THEN ZeroFrame ELSE NullBuffer
  ELSE ZeroFrame

RECURSIVE AllocateBuffers(_, _, _, _)
AllocateBuffers(prev, k, needed, mallocs) ==
  IF k > needed THEN [prev |-> prev, ok |-> TRUE]
  ELSE LET buf == allocate_video_buf_prev(prev[k], mallocs)
       IN  IF buf = NullBuffer THEN [prev |-> prev, ok |-> FALSE]
           ELSE AllocateBuffers([prev EXCEPT ![k] = buf], k + 1, needed,
                                IF prev[k] = NullBuffer THEN mallocs - 1
                                ELSE mallocs)

BlendFunctionOf(type) ==
  CASE type = "FRAME_BLEND_MIX" -> "blend_frames_mix"
    [] type = "FRAME_BLEND_LCD_GHOSTING" -> "blend_frames_lcd_ghost"
    [] type = "FRAME_BLEND_LCD_GHOSTING_FAST" -> "blend_frames_lcd_ghost_fast"
    [] type = "FRAME_BLEND_ULTRA_FAST" -> "blend_frames_ultra_fast"
    [] OTHER -> "NULL"

\* Variant: the kernel is assigned whether or not the buffers were got.
init_frame_blending_AssignAnyway(v, mallocs) ==
  IF v.type = "FRAME_BLEND_NONE" THEN [v EXCEPT !.fn = "NULL"]
  ELSE LET needed == IF v.type = "FRAME_BLEND_LCD_GHOSTING" THEN 4 ELSE 1
           got == AllocateBuffers(v.prev, 1, needed, mallocs)
       IN  [v EXCEPT !.prev = got.prev, !.fn = BlendFunctionOf(v.type)]

init_frame_blending(v, mallocs) ==
  IF v.type = "FRAME_BLEND_NONE" THEN [v EXCEPT !.fn = "NULL"]
  ELSE LET needed == IF v.type = "FRAME_BLEND_LCD_GHOSTING" THEN 4 ELSE 1
           got == AllocateBuffers(v.prev, 1, needed, mallocs)
       IN  [v EXCEPT !.prev = got.prev,
                     !.fn = IF got.ok THEN BlendFunctionOf(v.type)
                            ELSE "NULL"]

deinit_frame_blending(v) ==
  [v EXCEPT !.prev = NoBuffers,
            !.type = "FRAME_BLEND_NONE"]

\* The values of the option gambatte_mix_frames: "absent" when the host has
\* no value for it, "disabled" for none and for any value the core does not
\* know.
BlendOptions ==
  {"absent", "disabled", "mix", "lcd_ghosting", "lcd_ghosting_fast",
   "ultra_fast"}

BlendTypeOf(option) ==
  CASE option = "mix" -> "FRAME_BLEND_MIX"
    [] option = "lcd_ghosting" -> "FRAME_BLEND_LCD_GHOSTING"
    [] option = "lcd_ghosting_fast" -> "FRAME_BLEND_LCD_GHOSTING_FAST"
    [] option = "ultra_fast" -> "FRAME_BLEND_ULTRA_FAST"
    [] OTHER -> "FRAME_BLEND_NONE"

\* Variant: the kernel is kept whatever the option says.
check_frame_blend_variable_KeepKernel(v, option, mallocs) ==
  IF BlendTypeOf(option) # v.type /\ BlendTypeOf(option) # "FRAME_BLEND_NONE"
  THEN init_frame_blending([v EXCEPT !.type = BlendTypeOf(option)], mallocs)
  ELSE [v EXCEPT !.type = BlendTypeOf(option)]

check_frame_blend_variable(v, option, mallocs) ==
  IF BlendTypeOf(option) = "FRAME_BLEND_NONE"
  THEN [v EXCEPT !.type = "FRAME_BLEND_NONE", !.fn = "NULL"]
  ELSE IF BlendTypeOf(option) # v.type
  THEN init_frame_blending([v EXCEPT !.type = BlendTypeOf(option)], mallocs)
  ELSE [v EXCEPT !.type = BlendTypeOf(option)]

(******************************* the fake RTC *******************************)
\* src/libgambatte/src/mem/fake_rtc.cpp.  A uint32_t is kept as its two
\* 16-bit halves, so that sums and differences wrap at 2^32 as they do in
\* the code.
Half == 2 ^ 16

uint32_t(n) == [hi |-> (n \div Half) % Half, lo |-> n % Half]

Add32(a, b) ==
  [hi |-> (a.hi + b.hi + ((a.lo + b.lo) \div Half)) % Half,
   lo |-> (a.lo + b.lo) % Half]

Sub32(a, b) ==
  [hi |-> ((a.hi - b.hi - (IF a.lo < b.lo THEN 1 ELSE 0)) + Half) % Half,
   lo |-> ((a.lo - b.lo) + Half) % Half]

Less32(a, b) == a.hi < b.hi \/ (a.hi = b.hi /\ a.lo < b.lo)

\* a / d and a % d for a divisor below 2^15
Div32(a, d) ==
  [hi |-> a.hi \div d, lo |-> (((a.hi % d) * Half) + a.lo) \div d]

Mod32(a, d) == (((a.hi % d) * Half) + a.lo) % d

\* The object g_fake_rtc points at; null: the pointer is NULL and the other
\* fields mean nothing.  save_dir_ is "" or the directory the host gave.
NoFakeRtc ==
  [null |-> TRUE,
   state_ |-> [total_minutes |-> uint32_t(0), last_real_time |-> uint32_t(0),
               enabled |-> FALSE, needs_save |-> FALSE],
   save_dir_ |-> "", persistent_bump_minutes_ |-> 0,
   one_off_bump_minutes_ |-> 0, previous_persistent_bump_ |-> 0,
   last_save_time_ |-> uint32_t(0)]

\* FakeRtc::FakeRtc at time `now`
FakeRtc(now) ==
  [NoFakeRtc EXCEPT !.null = FALSE, !.state_.enabled = TRUE,
                    !.state_.last_real_time = now]

\* The file gambatte_rtc.dat of the save directory: << >> when there is
\* none, << minutes >> when it holds a total_minutes.
NoFile == << >>

\* The fake RTC and its file: g for g_fake_rtc, initialized for
\* g_fake_rtc_initialized, file for gambatte_rtc.dat.
\* if (!g_fake_rtc) g_fake_rtc = new FakeRtc();
Constructed(w, now) ==
  IF w.g.null THEN [w EXCEPT !.g = FakeRtc(now)] ELSE w

\* FakeRtc::bump_time on state_
bump_time(s, bump_minutes) ==
  IF ~s.enabled THEN s
  ELSE [s EXCEPT
          !.total_minutes =
             IF bump_minutes > 0 THEN Add32(@, uint32_t(bump_minutes))
             ELSE IF bump_minutes < 0
             THEN IF Less32(@, uint32_t(0 - bump_minutes))
                  THEN uint32_t(0)
                  ELSE Sub32(@, uint32_t(0 - bump_minutes))
             ELSE @,
          !.needs_save = TRUE]

\* FakeRtc::apply_persistent_bump
apply_persistent_bump(o) ==
  LET diff == o.persistent_bump_minutes_ - o.previous_persistent_bump_
  IN  IF ~o.state_.enabled \/ diff = 0 THEN o
      ELSE [o EXCEPT
              !.state_ = bump_time(@, diff),
              !.previous_persistent_bump_ = o.persistent_bump_minutes_]

\* FakeRtc::apply_one_off_bump; the option file is rewritten by the action
\* that calls it.
apply_one_off_bump(o) ==
  IF ~o.state_.enabled \/ o.one_off_bump_minutes_ = 0 THEN o
  ELSE [o EXCEPT
          !.state_ = bump_time(@, o.one_off_bump_minutes_),
          !.one_off_bump_minutes_ = 0]

\* state_.total_minutes = 2 * 365 * 24 * 60 when there is no file
DefaultMinutes == uint32_t(2 * 365 * 24 * 60)

\* FakeRtc::load_from_file
load_from_file(o, file) ==
  IF o.save_dir_ = "" THEN o
  ELSE IF file # NoFile THEN [o EXCEPT !.state_.total_minutes = file[1]]
  ELSE [o EXCEPT !.state_.total_minutes = DefaultMinutes,
                 !.state_.needs_save = TRUE]

\* FakeRtc::load
load(o, file) == IF ~o.state_.enabled THEN o ELSE load_from_file(o, file)

\* FakeRtc::save_to_file: the file after it
save_to_file(o, file) ==
  IF o.save_dir_ = "" THEN file ELSE << o.state_.total_minutes >>

\* FakeRtc::save
save(w, now) ==
  IF ~w.g.state_.enabled THEN w
  ELSE [w EXCEPT !.file = save_to_file(w.g, w.file),
                 !.g.state_.needs_save = FALSE,
                 !.g.last_save_time_ = now]

\* FakeRtc::init
init(w, now) ==
  IF ~w.g.state_.enabled THEN w
  ELSE [w EXCEPT
          !.g = [apply_one_off_bump(apply_persistent_bump(load(w.g, w.file)))
                   EXCEPT !.state_.last_real_time = now,
                          !.last_save_time_ = now]]

\* FakeRtc::update_elapsed_time on state_
update_elapsed_time(s, current_time) ==
  LET elapsed_seconds == Sub32(current_time, s.last_real_time)
  IN  IF Less32(elapsed_seconds, uint32_t(60)) THEN s
      ELSE [s EXCEPT
              !.total_minutes = Add32(@, Div32(elapsed_seconds, 60)),
              !.last_real_time =
                 Sub32(current_time, uint32_t(Mod32(elapsed_seconds, 60))),
              !.needs_save = TRUE]

SAVE_INTERVAL == 300

\* FakeRtc::should_save
should_save(o, current_time) ==
  /\ o.state_.needs_save
  /\ ~Less32(Sub32(current_time, o.last_save_time_), uint32_t(SAVE_INTERVAL))

\* FakeRtc::update
update(w, now) ==
  IF ~w.g.state_.enabled THEN w
  ELSE LET u == [w EXCEPT !.g.state_ = update_elapsed_time(@, now)]
       IN  IF should_save(u.g, now) THEN save(u, now) ELSE u

\* FakeRtc::set_enabled
set_enabled(w, enabled, now) ==
  [(IF w.g.state_.enabled /\ ~enabled /\ w.g.state_.needs_save
    THEN save(w, now) ELSE w)
     EXCEPT !.g.state_.enabled = enabled]

\* The C interface.
fake_rtc_init(w, now) ==
  LET c == Constructed(w, now)
  IN  IF c.initialized THEN c
      ELSE [init(c, now) EXCEPT !.initialized = TRUE]

fake_rtc_update(w, now) == IF w.g.null THEN w ELSE update(w, now)

fake_rtc_save(w, now) == IF w.g.null THEN w ELSE save(w, now)

fake_rtc_bump_time(w, bump_minutes) ==
  IF w.g.null THEN w ELSE [w EXCEPT !.g.state_ = bump_time(@, bump_minutes)]

fake_rtc_set_enabled(w, enabled, now) ==
  set_enabled(Constructed(w, now), enabled, now)

fake_rtc_set_save_dir(w, save_dir, now) ==
  [Constructed(w, now) EXCEPT !.g.save_dir_ = save_dir]

fake_rtc_set_persistent_bump(w, minutes, now) ==
  [Constructed(w, now) EXCEPT !.g.persistent_bump_minutes_ = minutes]

fake_rtc_set_one_off_bump(w, minutes, now) ==
  [Constructed(w, now) EXCEPT !.g.one_off_bump_minutes_ = minutes]

\* The part of check_variables that reads the fake RTC options: opt.enabled,
\* opt.persistent and opt.one_off are gambatte_fake_rtc,
\* gambatte_fake_rtc_persistent_bump_minutes and
\* gambatte_fake_rtc_one_off_bump_minutes as the host holds them.
check_variables_rtc(w, opt, now) ==
  fake_rtc_set_one_off_bump(
    fake_rtc_set_persistent_bump(
      fake_rtc_set_enabled(w, opt.enabled, now), opt.persistent, now),
    opt.one_off, now)

\* The part of retro_load_game that sets the fake RTC up.
load_game_rtc(w, opt, now) ==
  fake_rtc_init(
    check_variables_rtc(fake_rtc_set_save_dir(w, "save_dir", now), opt, now),
    now)

(********************************* the state *******************************)
\* tick: what the running (done = FALSE) or last call of retro_run_internal
\* did.  kind: "dupe" or "frame"; video: the calls of video_cb; steps, blocks,
\* returned: emulation steps run, raw blocks and samples the core returned;
\* pushed, writes, written, inside, regrown: as in the audio record; uploads: calls of
\* audio_upload_samples; blended: blend_frames was called; splash: the tick
\* fell into the splash period; samples0, frames0: the counters when the call
\* began; ff, slow, audio: the speed state and audio option it ran under;
\* max0: audio_batch_frames_max when the call began; reinit: the call ended
\* with check_variables setting the resampler and the buffer up again; first:
\* the call is the first since retro_load_game.
VideoCall(buf) ==
  [buf |-> buf, width |-> VIDEO_WIDTH, height |-> VIDEO_HEIGHT,
   pitch |-> VIDEO_PITCH]

\* run: the call of retro_run the tick belongs to.  level: the fast-forward
\* state retro_run found; calls, steps, videos: the calls of
\* retro_run_internal it has made, the emulation steps they ran and the
\* buffers they handed to video_cb; steady: no call changed the fast-forward
\* state.
NoRun == [level |-> 0, calls |-> 0, steps |-> 0, videos |-> << >>,
          steady |-> TRUE]

\* The poll of a tick, as the tick record keeps it: chord_a, chord_b the
\* level of SELECT+A and SELECT+B, a_prev0, b_prev0, ff0, slow0 the state the
\* poll found; phase0, phase: the non-duplicate ticks past the splash period
\* that slow motion has seen since the last rising edge of a chord, before
\* and after the tick.
PollRecord(sp, counted) ==
  LET rising == (sp.a_prev /\ ~sf2000_select_a_prev)
                  \/ (sp.b_prev /\ ~sf2000_select_b_prev)
      before == IF rising THEN 0 ELSE tick.phase
  IN  [chord_a |-> sp.a_prev, chord_b |-> sp.b_prev,
       a_prev0 |-> sf2000_select_a_prev, b_prev0 |-> sf2000_select_b_prev,
       ff0 |-> sf2000_fastforward_state, slow0 |-> sf2000_slowmotion_state,
       phase0 |-> before,
       phase |-> IF counted /\ sp.ff = 0 /\ sp.slow > 0
                 THEN before + 1 ELSE before]

RunRecord(sp, steps, buf) ==
  [tick.run EXCEPT !.calls = @ + 1, !.steps = @ + steps,
                   !.videos = Append(@, buf),
                   !.steady = @ /\ sp.ff = tick.run.level]

WithPoll(t, poll, run) ==
  [t EXCEPT !.chord_a = poll.chord_a, !.chord_b = poll.chord_b,
            !.a_prev0 = poll.a_prev0, !.b_prev0 = poll.b_prev0,
            !.ff0 = poll.ff0, !.slow0 = poll.slow0,
            !.phase0 = poll.phase0, !.phase = poll.phase, !.run = run]

NoTick ==
  [kind |-> "none", done |-> TRUE, video |-> << >>, steps |-> 0, blocks |-> 0,
   returned |-> 0, pushed |-> 0, writes |-> 0, uploads |-> 0, blended |-> FALSE,
   splash |-> FALSE, samples0 |-> 0, frames0 |-> 0, ff |-> 0, slow |-> 0,
   audio |-> FALSE, written |-> 0, inside |-> TRUE, regrown |-> 0,
   max0 |-> AUDIO_BATCH_FRAMES_INIT, reinit |-> FALSE,
   chord_a |-> FALSE, chord_b |-> FALSE, a_prev0 |-> FALSE,
   b_prev0 |-> FALSE, ff0 |-> 0, slow0 |-> 0, phase0 |-> 0, phase |-> 0,
   run |-> NoRun, first |-> FALSE]

\* ran: the upload loop was entered (the upload was not muted); frames: the
\* frames the buffer held then.
NoDrain == [ran |-> FALSE, batches |-> << >>, offered |-> << >>, frames |-> 0]

\* setup: the calls of audio_resampler_init since the game was loaded.
\* calls: how many; startup, failed: the argument of the last one and whether
\* blipper_new failed in it; notices: "Sinc resampler unsupported" messages
\* shown; av_info: SET_SYSTEM_AV_INFO calls the last one made; rate: the
\* sample rate they carried (0: none sent).
NoSetup == [calls |-> 0, startup |-> FALSE, failed |-> FALSE, notices |-> 0,
            av_info |-> 0, rate |-> 0]

\* frame: the frames that went to video_cb and the option passes.
\*   rendered, out   the last frame as the core (or the splash screen) left
\*                   it in video_buf, and as it was delivered
\*   out0            the frame delivered before that one (<< >>: none)
\*   fn, prev0       the kernel that ran on it ("NULL": none) and the
\*                   retained buffers it found
\*   kind            the blend kind the option asked for when it was delivered
\*   configured      the blend kind the option asked for when last read
\*   from            the kind it asked for before it last changed to a kind
\*                   other than none
\*   changed         frames a kernel ran on since the option last changed to
\*                   a kind other than none (counted up to 2)
\*   feeds           frames a kernel ran on since init_frame_blending last
\*                   set the retained buffers up (counted up to MaxFeeds + 1)
\*   first_rendered, first_out   rendered and out of the first of them
NoFrame ==
  [rendered |-> << >>, out |-> << >>, out0 |-> << >>, fn |-> "NULL",
   prev0 |-> NoBuffers,
   kind |-> "FRAME_BLEND_NONE", configured |-> "FRAME_BLEND_NONE",
   from |-> "FRAME_BLEND_NONE", changed |-> 0, feeds |-> 0, first_rendered |-> << >>,
   first_out |-> << >>]

\* What malloc returns: memory nobody has written.  The value stands for
\* any content; sf2000_draw_splash_screen fills all of video_buf before the
\* first frame of a session is blended or delivered.
UninitialisedFrame == [i \in 1..BufferPixels |-> 0 - 1]

Blend ==
  [type |-> frame_blend_type, fn |-> blend_frames, prev |-> video_buf_prev]

Allocated(prev) == Cardinality({k \in 1..4 : prev[k] # NullBuffer})

\* check_frame_blend_variable when GET_VARIABLE answers `option`.
SetBlend(option) ==
  LET v == check_frame_blend_variable(Blend, option, env.mallocs)
      kind == BlendTypeOf(option)
  IN  /\ frame_blend_type' = v.type
      /\ blend_frames' = v.fn
      /\ video_buf_prev' = v.prev
      /\ frame' = [frame EXCEPT
                     !.configured = kind,
                     !.from = IF kind # frame.configured
                                 /\ kind # "FRAME_BLEND_NONE"
                              THEN frame.configured ELSE @,
                     !.changed = IF kind # frame.configured
                                    /\ kind # "FRAME_BLEND_NONE"
                                 THEN 0 ELSE @,
                     !.feeds = IF kind # frame_blend_type
                                  /\ kind # "FRAME_BLEND_NONE"
                               THEN 0 ELSE @]

\* The mallocs check_frame_blend_variable makes for `option`.
BlendMallocs(option) ==
  Allocated(check_frame_blend_variable(Blend, option, env.mallocs).prev)
    - Allocated(video_buf_prev)

\* if (blend_frames) blend_frames(); video_cb(video_buf, ...): `rendered` is
\* video_buf as the emulation part of the tick left it.
Delivered(rendered, r) ==
  LET ran == IF blend_frames = "NULL" THEN 0 ELSE 1
  IN  /\ video_buf' = r.curr
      /\ video_buf_prev' = r.prev
      /\ frame' = [frame EXCEPT
                     !.rendered = rendered,
                     !.out = r.curr,
                     !.out0 = frame.out,
                     !.fn = blend_frames,
                     !.prev0 = video_buf_prev,
                     !.kind = frame.configured,
                     !.changed = IF @ < 2 THEN @ + ran ELSE @,
                     !.feeds = IF @ <= MaxFeeds THEN @ + ran ELSE @,
                     !.first_rendered =
                        IF frame.feeds = 0 /\ ran = 1 THEN rendered ELSE @,
                     !.first_out =
                        IF frame.feeds = 0 /\ ran = 1 THEN r.curr ELSE @]

DeliverFrame(rendered) ==
  Delivered(rendered,
            IF blend_frames = "NULL"
            THEN [curr |-> rendered, prev |-> video_buf_prev]
            ELSE CallBlend(blend_frames, rendered, video_buf_prev))

\* rtc_host: what surrounds the fake RTC.
\*   now             what time(NULL) returns
\*   file            gambatte_rtc.dat
\*   opt             the fake RTC options as the host holds them
\*   calls           calls made in the runs of RtcSpec
\*   call            the last call: op, the clock (now0) and the fake RTC
\*                   (before) it found, its argument (arg); for a set-up at
\*                   retro_load_game whether FakeRtc::init ran its body
\*                   (ran) and the locals time_after_load and
\*                   time_after_persistent of it
\*   reflected       the minutes of persistent bump that bump_time has added
\*                   to the total_minutes in memory, file_reflected the same
\*                   for the total in the file; reflected0 in call: the
\*                   value for the total as FakeRtc::init loaded it
World ==
  [g |-> g_fake_rtc, initialized |-> g_fake_rtc_initialized,
   file |-> rtc_host.file]

NoWorld == [g |-> NoFakeRtc, initialized |-> FALSE, file |-> NoFile]

NoCall ==
  [op |-> "none", now0 |-> uint32_t(0), before |-> NoWorld, arg |-> 0,
   ran |-> FALSE, time_after_load |-> uint32_t(0),
   time_after_persistent |-> uint32_t(0), reflected0 |-> 0]

RtcCall(op, arg) ==
  [NoCall EXCEPT !.op = op, !.now0 = rtc_host.now, !.before = World,
                 !.arg = arg]

\* The fake RTC options in the runs of Spec: the host has no value for them.
DefaultRtcOptions == [enabled |-> TRUE, persistent |-> 0, one_off |-> 0]

StartTime == uint32_t(1700000000)

NoRtcHost ==
  [now |-> StartTime, file |-> NoFile, opt |-> DefaultRtcOptions, calls |-> 0,
   call |-> NoCall, reflected |-> 0, file_reflected |-> 0]

\* A call has taken the fake RTC to w at time now; n: counted or not.
RtcStep(w, now, opt, call, reflected, n) ==
  /\ g_fake_rtc' = w.g
  /\ g_fake_rtc_initialized' = w.initialized
  /\ rtc_host' =
       [now |-> now, file |-> w.file, opt |-> opt,
        calls |-> rtc_host.calls + n, call |-> call,
        reflected |-> reflected,
        file_reflected |->
           IF g_fake_rtc.state_.needs_save /\ ~w.g.state_.needs_save
           THEN reflected ELSE rtc_host.file_reflected]

\* fake_rtc_update at the top of retro_run_internal
RtcUpdate(now, n) ==
  RtcStep(fake_rtc_update(World, now), now, rtc_host.opt,
          RtcCall("update", 0), rtc_host.reflected, n)

\* The fake RTC part of check_variables when the options are read anew.
RtcCheckVariables(opt, n) ==
  RtcStep(check_variables_rtc(World, opt, rtc_host.now), rtc_host.now, opt,
          RtcCall("check_variables", 0), rtc_host.reflected, n)

\* The fake RTC part of retro_load_game.  When FakeRtc::init applies a
\* one-off bump it sets the option back to 0 in the option file.
RtcLoadGame(opt, n) ==
  LET now == rtc_host.now
      pre == check_variables_rtc(
               fake_rtc_set_save_dir(World, "save_dir", now), opt, now)
      ran == ~pre.initialized /\ pre.g.state_.enabled
      loaded == load(pre.g, pre.file)
      reflected0 == IF ~ran THEN rtc_host.reflected
                    ELSE IF pre.file = NoFile THEN 0
                    ELSE rtc_host.file_reflected
      diff == pre.g.persistent_bump_minutes_
                - pre.g.previous_persistent_bump_
  IN  RtcStep(load_game_rtc(World, opt, now), now,
              IF ran THEN [opt EXCEPT !.one_off = 0] ELSE opt,
              [RtcCall("load_game", 0) EXCEPT
                 !.ran = ran,
                 !.time_after_load = loaded.state_.total_minutes,
                 !.time_after_persistent =
                    apply_persistent_bump(loaded).state_.total_minutes,
                 !.reflected0 = reflected0],
              IF ran THEN reflected0 + diff ELSE reflected0, n)

\* fake_rtc_save in retro_deinit
RtcSave(n) ==
  RtcStep(fake_rtc_save(World, rtc_host.now), rtc_host.now, rtc_host.opt,
          RtcCall("save", 0), rtc_host.reflected, n)

\* video_buf after the emulation part of a tick: the splash screen, the
\* picture of the last step run, or what the tick before left there.
RenderedFrame(steps, picture) ==
  IF InSplash THEN SplashFrame
  ELSE IF steps > 0 THEN runFor(video_buf, picture)
  ELSE video_buf

\* The state retro_init leaves when the library has just been loaded: the
\* statics hold their initialisers, no game is loaded.
Init ==
  /\ pc = "unloaded"
  /\ iters_left = 0
  /\ samples_count = 0
  /\ frames_count = 0
  /\ sf2000_fastforward_state = 0
  /\ sf2000_slowmotion_state = 0
  /\ sf2000_select_a_prev = FALSE
  /\ sf2000_select_b_prev = FALSE
  /\ sf2000_slowmotion_frame_counter = 0
  /\ sf2000_splash_shown = FALSE
  /\ sf2000_splash_timer = 0
  /\ env \in Scenarios
  /\ libretro_supports_set_variable = env.set_variable
  /\ gambatte_audio_resampler = "sinc"
  /\ fast_forward_audio_enabled = FALSE
  /\ blend_frames = "NULL"
  /\ use_cc_resampler = TRUE
  /\ resampler = [phase |-> 0, avail |-> 0, l |-> "NULL", r |-> "NULL"]
  /\ audio_out_buffer = << >>
  /\ audio_out_buffer_size = 0
  /\ audio_out_buffer_pos = 0
  /\ audio_batch_frames_max = AUDIO_BATCH_FRAMES_INIT
  /\ upload = [num_samples |-> 0, ptr |-> 0]
  /\ tick = NoTick
  /\ drain = NoDrain
  /\ host_fps = 1
  /\ setup = NoSetup
  /\ frame_blend_type = "FRAME_BLEND_NONE"
  /\ video_buf = UninitialisedFrame
  /\ video_buf_prev = NoBuffers
  /\ frame = NoFrame
  /\ g_fake_rtc = NoFakeRtc
  /\ g_fake_rtc_initialized = FALSE
  /\ rtc_host = NoRtcHost

(******************************** the actions ******************************)
\* retro_run: one call of retro_run_internal, three or five in fast forward.
retro_run ==
  /\ pc = "host"
  /\ iters_left' = retro_get_system_av_info(sf2000_fastforward_state)
  /\ pc' = "internal"
  /\ tick' = [tick EXCEPT !.run = [NoRun EXCEPT
                                    !.level = sf2000_fastforward_state]]
  /\ UNCHANGED << rtc_vars, samples_count, frames_count, sf2000_fastforward_state,
                  sf2000_slowmotion_state, sf2000_select_a_prev,
                  sf2000_select_b_prev, sf2000_slowmotion_frame_counter,
                  sf2000_splash_shown, sf2000_splash_timer,
                  fast_forward_audio_enabled, use_cc_resampler, resampler,
                  blend_frames, audio_out_buffer, audio_out_buffer_size,
                  audio_out_buffer_pos, audio_batch_frames_max, upload,
                  drain, host_fps, libretro_supports_set_variable,
                  gambatte_audio_resampler, setup, env,
                  video_vars >>

\* The return from retro_run_internal into the loop of retro_run.
Return ==
  /\ iters_left' = iters_left - 1
  /\ pc' = IF iters_left > 1 THEN "internal" ELSE "host"

SetSpeed(sp) ==
  /\ sf2000_fastforward_state' = sp.ff
  /\ sf2000_slowmotion_state' = sp.slow
  /\ sf2000_select_a_prev' = sp.a_prev
  /\ sf2000_select_b_prev' = sp.b_prev
  /\ host_fps' = sp.fps

\* Variant: the dupe test taken with <= in place of <.
DetectFrameDupe_OrEqual ==
  frames_count <= samples_count \div SOUND_SAMPLES_PER_FRAME

\* if (frames_count < expected_frames)
DetectFrameDupe == frames_count < samples_count \div SOUND_SAMPLES_PER_FRAME

\* retro_run_internal on a tick that detects a frame dupe.
DupeFrame(sp, edges) ==
  /\ SetSpeed(sp)
  /\ sf2000_slowmotion_frame_counter' = sp.counter
  /\ frames_count' = frames_count + 1
  /\ tick' = WithPoll([NoTick EXCEPT !.kind = "dupe",
                            !.first = (tick.kind = "none"),
                            !.video = << VideoCall("NULL") >>,
                            !.samples0 = samples_count,
                            !.frames0 = frames_count,
                            !.ff = sp.ff, !.slow = sp.slow,
                            !.audio = fast_forward_audio_enabled,
                            !.max0 = audio_batch_frames_max],
                       PollRecord(sp, FALSE), RunRecord(sp, 0, "NULL"))
  /\ drain' = NoDrain
  /\ env' = [env EXCEPT !.edges = @ - edges, !.ticks = @ - 1]
  /\ Return
  /\ RtcUpdate(rtc_host.now, 0)
  /\ UNCHANGED << samples_count, sf2000_splash_shown, sf2000_splash_timer,
                  fast_forward_audio_enabled, use_cc_resampler, resampler,
                  blend_frames, audio_out_buffer, audio_out_buffer_size,
                  audio_out_buffer_pos, audio_batch_frames_max, upload,
                  libretro_supports_set_variable, gambatte_audio_resampler,
                  setup,
                  video_vars >>

\* The buttons the host reports in one poll: <<select, a, b>>.
Buttons == { <<FALSE, FALSE, FALSE>>, <<TRUE, TRUE, FALSE>>,
             <<TRUE, FALSE, TRUE>>, <<TRUE, TRUE, TRUE>> }

RunInternalDupe ==
  \E btn \in Buttons :
    /\ pc = "internal"
    /\ Edges(btn[1], btn[2], btn[3]) <= env.edges
    /\ env.ticks > 0
    /\ DetectFrameDupe
    /\ DupeFrame(update_input_state(Speed, btn[1], btn[2], btn[3]),
                 Edges(btn[1], btn[2], btn[3]))

\* retro_run_internal on any other tick, up to the first call of the audio
\* sink: input (sp), emulation steps (e), blend, video_cb, the last block
\* into the resampler (au), samples_count, and the entry of
\* audio_upload_samples.
FrameUpload(sp, e, au, edges) ==
  /\ SetSpeed(sp)
  /\ sf2000_slowmotion_frame_counter' =
       IF ~InSplash /\ sp.ff = 0 /\ sp.slow > 0
       THEN sp.counter + 1 ELSE sp.counter
  /\ sf2000_splash_timer' =
       IF InSplash THEN sf2000_splash_timer + 1 ELSE sf2000_splash_timer
  /\ sf2000_splash_shown' =
       IF InSplash /\ sf2000_splash_timer + 1 >= SF2000_SPLASH_DURATION
       THEN TRUE ELSE sf2000_splash_shown
  /\ samples_count' = e.sc + e.samples
  /\ resampler' = [phase |-> au.phase, avail |-> au.avail,
                   l |-> au.l, r |-> au.r]
  /\ audio_out_buffer_size' = au.size
  /\ tick' = WithPoll([NoTick EXCEPT !.kind = "frame", !.done = FALSE,
                            !.first = (tick.kind = "none"),
                            !.video = << VideoCall("video_buf") >>,
                            !.steps = e.steps, !.blocks = e.blocks,
                            !.returned = e.returned,
                            !.pushed = au.pushed, !.writes = au.writes,
                            !.uploads = 1,
                            !.blended = (blend_frames # "NULL"),
                            !.splash = InSplash,
                            !.samples0 = samples_count,
                            !.frames0 = frames_count,
                            !.ff = sp.ff, !.slow = sp.slow,
                            !.audio = fast_forward_audio_enabled,
                            !.written = au.written, !.inside = au.inside,
                            !.regrown = au.regrown,
                            !.max0 = audio_batch_frames_max],
                       PollRecord(sp, ~InSplash),
                       RunRecord(sp, e.steps, "video_buf"))
  /\ IF UploadMuted(sp.ff, sp.slow, fast_forward_audio_enabled)
     THEN /\ audio_out_buffer' = << >>
          /\ audio_out_buffer_pos' = ResetCursor(audio_out_buffer_pos)
          /\ upload' = [num_samples |-> 0, ptr |-> 0]
          /\ drain' = NoDrain
          /\ pc' = "tail"
     ELSE IF au.pos \div 2 = 0
     THEN /\ audio_out_buffer' = << >>
          /\ audio_out_buffer_pos' = ResetCursor(audio_out_buffer_pos)
          /\ upload' = [num_samples |-> 0, ptr |-> 0]
          /\ drain' = [NoDrain EXCEPT !.ran = TRUE]
          /\ pc' = "tail"
     ELSE /\ audio_out_buffer' = au.buf
          /\ audio_out_buffer_pos' = au.pos
          /\ upload' = [num_samples |-> au.pos \div 2, ptr |-> 0]
          /\ drain' = [NoDrain EXCEPT !.ran = TRUE, !.frames = au.pos \div 2]
          /\ pc' = "upload"
  /\ env' = [env EXCEPT !.edges = @ - edges, !.ticks = @ - 1]
  /\ RtcUpdate(rtc_host.now, 0)
  /\ UNCHANGED << iters_left, frames_count, fast_forward_audio_enabled,
                  use_cc_resampler, blend_frames, audio_batch_frames_max,
                  libretro_supports_set_variable, gambatte_audio_resampler,
                  setup,
                  frame_blend_type >>

FrameRender(sp, e, edges) ==
  FrameUpload(sp, e, RenderBlockFinal(e.a, e.samples), edges)

RunInternalFrame ==
  \E btn \in Buttons, shape \in env.shapes, picture \in env.pictures :
    /\ pc = "internal"
    /\ Edges(btn[1], btn[2], btn[3]) <= env.edges
    /\ env.ticks > 0
    /\ ~DetectFrameDupe
    /\ FrameRender(update_input_state(Speed, btn[1], btn[2], btn[3]),
                   Emulate(update_input_state(Speed, btn[1], btn[2], btn[3]),
                           shape),
                   Edges(btn[1], btn[2], btn[3]))
    /\ DeliverFrame(
         RenderedFrame(
           Emulate(update_input_state(Speed, btn[1], btn[2], btn[3]),
                   shape).steps,
           picture))

\* Variant: a batch of everything left, whatever the ceiling.
SamplesToWrite_Unclamped(num_samples, frames_max) == num_samples

\* (num_samples > audio_batch_frames_max) ? audio_batch_frames_max : num_samples
SamplesToWrite(num_samples, frames_max) ==
  IF num_samples > frames_max THEN frames_max ELSE num_samples

\* Variant: a short answer makes the offered count the ceiling.
NextBatchFramesMax_Offered(frames_max, samples_to_write, samples_written) ==
  IF samples_written < samples_to_write /\ samples_written > 0
  THEN samples_to_write ELSE frames_max

\* Variant: any short answer becomes the ceiling, an answer of 0 included.
NextBatchFramesMax_AnyShort(frames_max, samples_to_write, samples_written) ==
  IF samples_written < samples_to_write THEN samples_written ELSE frames_max

\* if ((samples_written < samples_to_write) && (samples_written > 0))
NextBatchFramesMax(frames_max, samples_to_write, samples_written) ==
  IF samples_written < samples_to_write /\ samples_written > 0
  THEN samples_written ELSE frames_max

\* Variant: the loop is left after the first batch.
AdvanceUpload_Once(u, samples_to_write, samples_written) ==
  [num_samples |-> 0, ptr |-> u.ptr + (samples_to_write * 2)]

\* num_samples -= samples_to_write; audio_out_buffer_ptr += samples_to_write << 1
AdvanceUpload(u, samples_to_write, samples_written) ==
  [num_samples |-> u.num_samples - samples_to_write,
   ptr |-> u.ptr + (samples_to_write * 2)]

\* The elements a batch of `len` frames at offset ptr hands to the sink.
BatchData(buf, ptr, len) ==
  [i \in 1..(2 * len) |-> IF ptr + i <= Len(buf) THEN buf[ptr + i] ELSE 0]

\* What the sink may answer to an offer of n frames: nothing, one frame, half
\* of them, all but one, all of them, or more than it was offered.
SinkAnswers(n) == {0, 1, n \div 2, n - 1, n, n + 1}

\* One iteration of the while loop of audio_upload_samples; samples_written
\* is the answer of audio_batch_cb.  Leaving the loop resets the cursor.
UploadBatch ==
  /\ pc = "upload"
  /\ LET samples_to_write ==
           SamplesToWrite(upload.num_samples, audio_batch_frames_max)
     IN  \E samples_written \in SinkAnswers(samples_to_write) :
           LET u == AdvanceUpload(upload, samples_to_write, samples_written)
               short == IF samples_written = samples_to_write THEN 0 ELSE 1
           IN  /\ short <= env.shorts
               /\ env' = [env EXCEPT !.shorts = @ - short]
               /\ audio_batch_frames_max' =
                    NextBatchFramesMax(audio_batch_frames_max,
                                       samples_to_write, samples_written)
               /\ drain' =
                    [drain EXCEPT
                       !.batches = Append(@,
                          [start |-> upload.ptr, len |-> samples_to_write,
                           max |-> audio_batch_frames_max,
                           accepted |-> samples_written]),
                       !.offered = @ \o BatchData(audio_out_buffer, upload.ptr,
                                                  samples_to_write)]
               /\ upload' = u
               /\ IF u.num_samples > 0
                  THEN /\ pc' = "upload"
                       /\ UNCHANGED << audio_out_buffer, audio_out_buffer_pos >>
                  ELSE /\ pc' = "tail"
                       /\ audio_out_buffer' = << >>
                       /\ audio_out_buffer_pos' = ResetCursor(audio_out_buffer_pos)
  /\ UNCHANGED << rtc_vars, iters_left, samples_count, frames_count,
                  sf2000_fastforward_state, sf2000_slowmotion_state,
                  sf2000_select_a_prev, sf2000_select_b_prev,
                  sf2000_slowmotion_frame_counter, sf2000_splash_shown,
                  sf2000_splash_timer, fast_forward_audio_enabled,
                  use_cc_resampler, resampler, blend_frames,
                  audio_out_buffer_size, tick, host_fps,
                  libretro_supports_set_variable, gambatte_audio_resampler,
                  setup,
                  video_vars >>

\* The part of check_variables(false) the pipeline depends on: the options
\* read anew, and the resampler set up again when the backend option changed.
check_variables(a, option_cc, left_ok, right_ok) ==
  IF option_cc # a.cc
  THEN audio_resampler_init(
         [audio_resampler_deinit(a) EXCEPT !.cc = option_cc], left_ok, right_ok)
  ELSE a

\* frames_count += speed_multiplier, or frames_count++
AdvanceFrames(frames, ff) ==
  IF ff > 0 THEN frames + SpeedMultiplier(ff) ELSE frames + 1

\* The rest of retro_run_internal after audio_upload_samples: frames_count
\* and the option update.  When GET_VARIABLE_UPDATE answers true the user
\* has given the options new values (or the old ones): check_variables reads
\* them, sets the resampler up again when the backend changed and then sends
\* SET_SYSTEM_AV_INFO.
RunInternalTail ==
  /\ pc = "tail"
  /\ frames_count' = AdvanceFrames(frames_count, sf2000_fastforward_state)
  /\ \E updated \in BOOLEAN :
       IF updated
       THEN /\ env.updates > 0
            /\ fast_forward_audio_enabled' \in env.audio
            /\ RtcCheckVariables(rtc_host.opt, 0)
            /\ \E blend \in env.blend :
                 /\ SetBlend(blend)
                 /\ env' = [env EXCEPT !.updates = @ - 1,
                                       !.mallocs = @ - BlendMallocs(blend)]
            /\ \E option \in env.resampler, left_ok \in env.ok,
                  right_ok \in env.ok :
                 LET option_cc == (option = "cc")
                     reinit == (option_cc # use_cc_resampler)
                     a0 == [audio_resampler_deinit(Audio) EXCEPT
                              !.cc = option_cc]
                     a == check_variables(Audio, option_cc, left_ok, right_ok)
                 IN  /\ tick' = [tick EXCEPT !.done = TRUE,
                                              !.reinit = reinit]
                     /\ use_cc_resampler' = a.cc
                     /\ resampler' = [phase |-> a.phase, avail |-> a.avail,
                                      l |-> a.l, r |-> a.r]
                     /\ audio_out_buffer' = a.buf
                     /\ audio_out_buffer_size' = a.size
                     /\ audio_out_buffer_pos' = a.pos
                     /\ audio_batch_frames_max' = a.max
                     /\ setup' =
                          IF reinit
                          THEN [SetupRecord(setup, a0, left_ok, right_ok, FALSE)
                                  EXCEPT !.av_info = @ + 1,
                                         !.rate = SampleRate]
                          ELSE setup
                     /\ gambatte_audio_resampler' =
                          IF reinit
                          THEN OptionAfterInit(option, a0, left_ok, right_ok,
                                               libretro_supports_set_variable)
                          ELSE option
                     /\ host_fps' =
                          IF reinit
                          THEN retro_get_system_av_info(sf2000_fastforward_state)
                          ELSE host_fps
       ELSE /\ tick' = [tick EXCEPT !.done = TRUE]
            /\ UNCHANGED << rtc_vars, env, fast_forward_audio_enabled, blend_frames,
                            use_cc_resampler, resampler, audio_out_buffer,
                            audio_out_buffer_size, audio_out_buffer_pos,
                            audio_batch_frames_max, setup,
                            gambatte_audio_resampler, host_fps,
                            frame_blend_type, video_buf_prev, frame >>
  /\ Return
  /\ UNCHANGED << samples_count, sf2000_fastforward_state,
                  sf2000_slowmotion_state, sf2000_select_a_prev,
                  sf2000_select_b_prev, sf2000_slowmotion_frame_counter,
                  sf2000_splash_shown, sf2000_splash_timer, upload, drain,
                  libretro_supports_set_variable, video_buf >>

\* retro_load_game: the splash period starts over, check_variables(true)
\* reads the options as the host holds them, audio_resampler_init(true) sets
\* up the backend it can get.  The host then asks retro_get_system_av_info
\* for the timing of the session.
retro_load_game ==
  /\ pc = "unloaded"
  /\ env.loads > 0
  /\ sf2000_splash_shown' = FALSE
  /\ sf2000_splash_timer' = 0
  /\ fast_forward_audio_enabled' \in env.audio
  /\ \E blend \in env.blend :
       /\ SetBlend(blend)
       /\ env' = [env EXCEPT !.loads = @ - 1,
                             !.mallocs = @ - BlendMallocs(blend)]
  /\ \E option \in env.resampler, left_ok \in env.ok, right_ok \in env.ok :
       LET a0 == [Audio EXCEPT !.cc = (option = "cc")]
           a == audio_resampler_init(a0, left_ok, right_ok)
       IN  /\ use_cc_resampler' = a.cc
           /\ resampler' = [phase |-> a.phase, avail |-> a.avail,
                            l |-> a.l, r |-> a.r]
           /\ audio_out_buffer' = a.buf
           /\ audio_out_buffer_size' = a.size
           /\ audio_out_buffer_pos' = a.pos
           /\ audio_batch_frames_max' = a.max
           /\ setup' = SetupRecord(NoSetup, a0, left_ok, right_ok, TRUE)
           /\ gambatte_audio_resampler' =
                OptionAfterInit(option, a0, left_ok, right_ok,
                                libretro_supports_set_variable)
  /\ host_fps' = retro_get_system_av_info(sf2000_fastforward_state)
  /\ tick' = [NoTick EXCEPT !.phase = tick.phase]
  /\ drain' = NoDrain
  /\ upload' = [num_samples |-> 0, ptr |-> 0]
  /\ pc' = "host"
  /\ RtcLoadGame(rtc_host.opt, 0)
  /\ UNCHANGED << iters_left, samples_count, frames_count,
                  sf2000_fastforward_state, sf2000_slowmotion_state,
                  sf2000_select_a_prev, sf2000_select_b_prev,
                  sf2000_slowmotion_frame_counter,
                  libretro_supports_set_variable, video_buf >>

\* retro_unload_game, called by a host that has another game to load.
retro_unload_game ==
  /\ pc = "host"
  /\ env.loads > 0
  /\ pc' = "unloaded"
  /\ UNCHANGED << rtc_vars, iters_left, samples_count, frames_count,
                  sf2000_fastforward_state, sf2000_slowmotion_state,
                  sf2000_select_a_prev, sf2000_select_b_prev,
                  sf2000_slowmotion_frame_counter, sf2000_splash_shown,
                  sf2000_splash_timer, fast_forward_audio_enabled,
                  use_cc_resampler, resampler, blend_frames, audio_out_buffer,
                  audio_out_buffer_size, audio_out_buffer_pos,
                  audio_batch_frames_max, upload, tick, drain, host_fps,
                  libretro_supports_set_variable, gambatte_audio_resampler,
                  setup, env,
                  video_vars >>

\* retro_deinit: the resampler and the output buffer are released, the speed
\* controller is set back; the counters of retro_run_internal are not within
\* its reach.
retro_deinit ==
  /\ pc = "unloaded"
  /\ env.loads > 0
  /\ LET a == audio_resampler_deinit(Audio)
     IN  /\ resampler' = [phase |-> a.phase, avail |-> a.avail,
                          l |-> a.l, r |-> a.r]
         /\ audio_out_buffer' = a.buf
         /\ audio_out_buffer_size' = a.size
         /\ audio_out_buffer_pos' = a.pos
         /\ audio_batch_frames_max' = a.max
  /\ sf2000_fastforward_state' = 0
  /\ sf2000_select_a_prev' = FALSE
  /\ sf2000_slowmotion_state' = 0
  /\ sf2000_select_b_prev' = FALSE
  /\ sf2000_slowmotion_frame_counter' = 0
  /\ libretro_supports_set_variable' = FALSE
  /\ video_buf' = NullBuffer
  /\ frame_blend_type' = deinit_frame_blending(Blend).type
  /\ video_buf_prev' = deinit_frame_blending(Blend).prev
  /\ frame' = NoFrame
  /\ tick' = NoTick
  /\ pc' = "deinit"
  /\ RtcSave(0)
  /\ UNCHANGED << iters_left, samples_count, frames_count,
                  sf2000_splash_shown, sf2000_splash_timer,
                  fast_forward_audio_enabled, use_cc_resampler, blend_frames,
                  upload, drain, host_fps, gambatte_audio_resampler, setup,
                  env >>

\* retro_init: the capabilities of the host are asked for again.
retro_init ==
  /\ pc = "deinit"
  /\ libretro_supports_set_variable' = env.set_variable
  /\ video_buf' = UninitialisedFrame
  /\ pc' = "unloaded"
  /\ UNCHANGED << rtc_vars, iters_left, samples_count, frames_count,
                  sf2000_fastforward_state, sf2000_slowmotion_state,
                  sf2000_select_a_prev, sf2000_select_b_prev,
                  sf2000_slowmotion_frame_counter, sf2000_splash_shown,
                  sf2000_splash_timer, fast_forward_audio_enabled,
                  use_cc_resampler, resampler, blend_frames, audio_out_buffer,
                  audio_out_buffer_size, audio_out_buffer_pos,
                  audio_batch_frames_max, upload, tick, drain, host_fps,
                  gambatte_audio_resampler, setup, frame_blend_type,
                  video_buf_prev, frame, env >>

Next ==
  \/ retro_load_game
  \/ retro_unload_game
  \/ retro_deinit
  \/ retro_init
  \/ retro_run
  \/ RunInternalDupe
  \/ RunInternalFrame
  \/ UploadBatch
  \/ RunInternalTail

Spec == Init /\ [][Next]_vars

(************************ the output buffer on its own **********************)
\* audio_out_buffer_write is an entry point of the resampler backends and
\* audio_out_buffer_read_blipper is called with whatever blipper_read_avail
\* reports: BufferSpec adds, to the runs of Spec, runs that call the two with
\* any frame count, on a buffer of any size, and reset the cursor as
\* audio_upload_samples does.
BufferInit ==
  /\ pc = "buffer"
  /\ g_fake_rtc = NoFakeRtc
  /\ g_fake_rtc_initialized = FALSE
  /\ rtc_host = NoRtcHost
  /\ iters_left = 0
  /\ samples_count = 0
  /\ frames_count = 0
  /\ sf2000_fastforward_state = 0
  /\ sf2000_slowmotion_state = 0
  /\ sf2000_select_a_prev = FALSE
  /\ sf2000_select_b_prev = FALSE
  /\ sf2000_slowmotion_frame_counter = 0
  /\ sf2000_splash_shown = FALSE
  /\ sf2000_splash_timer = 0
  /\ fast_forward_audio_enabled = FALSE
  /\ use_cc_resampler \in BOOLEAN
  /\ resampler = [phase |-> 0, avail |-> 0, l |-> "NULL", r |-> "NULL"]
  /\ blend_frames = "NULL"
  /\ audio_out_buffer = << >>
  /\ audio_out_buffer_size \in 0..MaxBufferSize
  /\ audio_out_buffer_pos = 0
  /\ audio_batch_frames_max = AUDIO_BATCH_FRAMES_INIT
  /\ upload = [num_samples |-> 0, ptr |-> 0]
  /\ tick = NoTick
  /\ drain = NoDrain
  /\ host_fps = 1
  /\ libretro_supports_set_variable = FALSE
  /\ gambatte_audio_resampler = "sinc"
  /\ setup = NoSetup
  /\ frame_blend_type = "FRAME_BLEND_NONE"
  /\ video_buf = UninitialisedFrame
  /\ video_buf_prev = NoBuffers
  /\ frame = NoFrame
  /\ env = [ticks |-> MaxBufferWrites, updates |-> 0, shorts |-> 0,
            edges |-> 0, loads |-> 0, shapes |-> {}, audio |-> {},
            resampler |-> {}, ok |-> {}, set_variable |-> FALSE,
            blend |-> {}, pictures |-> {}, mallocs |-> 0]

BufferStore(a) ==
  /\ audio_out_buffer' = a.buf
  /\ audio_out_buffer_size' = a.size
  /\ audio_out_buffer_pos' = a.pos
  /\ tick' = [tick EXCEPT !.inside = @ /\ a.inside,
                          !.regrown = @ + a.regrown,
                          !.writes = @ + 1,
                          !.written = a.written]
  /\ env' = [env EXCEPT !.ticks = @ - 1]
  /\ UNCHANGED << rtc_vars, pc, iters_left, samples_count, frames_count,
                  sf2000_fastforward_state, sf2000_slowmotion_state,
                  sf2000_select_a_prev, sf2000_select_b_prev,
                  sf2000_slowmotion_frame_counter, sf2000_splash_shown,
                  sf2000_splash_timer, fast_forward_audio_enabled,
                  use_cc_resampler, resampler, blend_frames,
                  audio_batch_frames_max, upload, drain, host_fps,
                  libretro_supports_set_variable, gambatte_audio_resampler,
                  setup,
                  video_vars >>

\* One call of audio_out_buffer_write, or of audio_out_buffer_read_blipper
\* when the band-limited backend is in use.
BufferWrite ==
  /\ pc = "buffer"
  /\ env.ticks > 0
  /\ \E num_samples \in 0..MaxWriteFrames :
       IF use_cc_resampler
       THEN BufferStore(audio_out_buffer_write(Audio, num_samples))
       ELSE BufferStore(audio_out_buffer_read_blipper(Audio, num_samples))

\* audio_out_buffer_pos = 0 at the end of audio_upload_samples.
BufferReset ==
  /\ pc = "buffer"
  /\ audio_out_buffer_pos > 0
  /\ audio_out_buffer' = << >>
  /\ audio_out_buffer_pos' = ResetCursor(audio_out_buffer_pos)
  /\ tick' = [tick EXCEPT !.written = 0]
  /\ UNCHANGED << rtc_vars, pc, iters_left, samples_count, frames_count,
                  sf2000_fastforward_state, sf2000_slowmotion_state,
                  sf2000_select_a_prev, sf2000_select_b_prev,
                  sf2000_slowmotion_frame_counter, sf2000_splash_shown,
                  sf2000_splash_timer, fast_forward_audio_enabled,
                  use_cc_resampler, resampler, blend_frames,
                  audio_out_buffer_size, audio_batch_frames_max, upload,
                  drain, host_fps, libretro_supports_set_variable,
                  gambatte_audio_resampler, setup, env,
                  video_vars >>

BufferNext ==
  \/ Next
  \/ BufferWrite
  \/ BufferReset

BufferSpec == (Init \/ BufferInit) /\ [][BufferNext]_vars

(************************* the blend kernels on their own *******************)
\* KernelSpec adds, to the runs of Spec, runs that feed frames to a kernel
\* directly: the mix kernel built for MIPS, the one built for other
\* architectures, or the accurate ghosting kernel, on retained buffers as
\* init_frame_blending leaves them or as earlier frames left them, with any
\* picture of the palette and any picture of one colour.
MixKernels == {"blend_frames_mix", "blend_frames_mix_portable"}

KernelsFed == MixKernels \cup {"blend_frames_lcd_ghost"}

KernelType(fn) ==
  IF fn \in MixKernels THEN "FRAME_BLEND_MIX" ELSE "FRAME_BLEND_LCD_GHOSTING"

\* The retained buffers after earlier frames showed picture a, and before it
\* picture b, in turn.
RetainedAfter(fn, a, b) ==
  [k \in 1..4 |->
     IF k \in BuffersUsed(fn)
     THEN runFor(ZeroFrame, IF k % 2 = 1 THEN a ELSE b)
     ELSE NullBuffer]

KernelInit ==
  /\ pc = "kernel"
  /\ g_fake_rtc = NoFakeRtc
  /\ g_fake_rtc_initialized = FALSE
  /\ rtc_host = NoRtcHost
  /\ iters_left = 0
  /\ samples_count = 0
  /\ frames_count = 0
  /\ sf2000_fastforward_state = 0
  /\ sf2000_slowmotion_state = 0
  /\ sf2000_select_a_prev = FALSE
  /\ sf2000_select_b_prev = FALSE
  /\ sf2000_slowmotion_frame_counter = 0
  /\ sf2000_splash_shown = TRUE
  /\ sf2000_splash_timer = SF2000_SPLASH_DURATION
  /\ fast_forward_audio_enabled = FALSE
  /\ use_cc_resampler = TRUE
  /\ resampler = [phase |-> 0, avail |-> 0, l |-> "NULL", r |-> "NULL"]
  /\ audio_out_buffer = << >>
  /\ audio_out_buffer_size = 0
  /\ audio_out_buffer_pos = 0
  /\ audio_batch_frames_max = AUDIO_BATCH_FRAMES_INIT
  /\ upload = [num_samples |-> 0, ptr |-> 0]
  /\ tick = NoTick
  /\ drain = NoDrain
  /\ host_fps = 1
  /\ libretro_supports_set_variable = FALSE
  /\ gambatte_audio_resampler = "sinc"
  /\ setup = NoSetup
  /\ blend_frames \in KernelsFed
  /\ frame_blend_type = KernelType(blend_frames)
  /\ video_buf = SplashFrame
  /\ \E p \in Pictures, q \in {u \in Pictures : u.even = u.odd} :
       env = [ticks |-> MaxFeeds, updates |-> 1, shorts |-> 0, edges |-> 0,
              loads |-> 0, shapes |-> {}, audio |-> {}, resampler |-> {},
              ok |-> {}, set_variable |-> FALSE, blend |-> {},
              pictures |-> {p, q}, mallocs |-> 1]
  /\ \/ /\ video_buf_prev = init_frame_blending(
                               [type |-> frame_blend_type, fn |-> "NULL",
                                prev |-> NoBuffers], 4).prev
        /\ frame = [NoFrame EXCEPT !.configured = frame_blend_type]
     \/ \E a \in env.pictures, b \in env.pictures :
          /\ blend_frames \in MixKernels => a = b
          /\ video_buf_prev = RetainedAfter(blend_frames, a, b)
          /\ frame = [NoFrame EXCEPT !.configured = frame_blend_type,
                                     !.changed = 1, !.feeds = 1]

KernelUnchanged ==
  UNCHANGED << rtc_vars, pc, iters_left, samples_count, frames_count,
               sf2000_fastforward_state, sf2000_slowmotion_state,
               sf2000_select_a_prev, sf2000_select_b_prev,
               sf2000_slowmotion_frame_counter, sf2000_splash_shown,
               sf2000_splash_timer, fast_forward_audio_enabled,
               use_cc_resampler, resampler, blend_frames, audio_out_buffer,
               audio_out_buffer_size, audio_out_buffer_pos,
               audio_batch_frames_max, upload, tick, drain, host_fps,
               libretro_supports_set_variable, gambatte_audio_resampler,
               setup, frame_blend_type >>

\* One frame: the core draws a picture, the kernel runs on it.
KernelFeed ==
  /\ pc = "kernel"
  /\ env.ticks > 0
  /\ \E picture \in env.pictures :
       DeliverFrame(RenderedFrame(1, picture))
  /\ env' = [env EXCEPT !.ticks = @ - 1]
  /\ KernelUnchanged

\* init_frame_blending once more: the retained buffer is cleared.
KernelReinit ==
  /\ pc = "kernel"
  /\ env.updates > 0
  /\ frame.feeds > 0
  /\ video_buf_prev' = init_frame_blending(Blend, env.mallocs).prev
  /\ frame' = [frame EXCEPT !.feeds = 0]
  /\ env' = [env EXCEPT !.updates = @ - 1]
  /\ video_buf' = video_buf
  /\ KernelUnchanged

KernelNext ==
  \/ Next
  \/ KernelFeed
  \/ KernelReinit

KernelSpec == (Init \/ KernelInit) /\ [][KernelNext]_vars

(*************************** the fake RTC on its own ************************)
\* RtcSpec adds, to the runs of Spec, runs in which only the fake RTC is
\* used: the clock moves (forward, or back when the user or the system sets
\* it), the user changes the options, the host starts and ends sessions and
\* the process ends and starts again with the save file it left.
RtcFiles == {NoFile, << uint32_t(5) >>, << uint32_t(0 - 3) >>}

RtcOptions ==
  {DefaultRtcOptions,
   [enabled |-> TRUE, persistent |-> 10, one_off |-> 0],
   [enabled |-> TRUE, persistent |-> 10, one_off |-> 7],
   [enabled |-> FALSE, persistent |-> 10, one_off |-> 0]}

\* Seconds the clock moves between two ticks; negative: it was set back.
ClockSteps == {0 - 1, 59, 60, 125}

BumpArgs == {0 - 10, 0, 10}

\* A uint32_t plus a small signed number, modulo 2^32
AddInt32(u, n) ==
  IF n >= 0 THEN Add32(u, uint32_t(n)) ELSE Sub32(u, uint32_t(0 - n))

RtcInit ==
  /\ pc = "rtc"
  /\ iters_left = 0
  /\ samples_count = 0
  /\ frames_count = 0
  /\ sf2000_fastforward_state = 0
  /\ sf2000_slowmotion_state = 0
  /\ sf2000_select_a_prev = FALSE
  /\ sf2000_select_b_prev = FALSE
  /\ sf2000_slowmotion_frame_counter = 0
  /\ sf2000_splash_shown = FALSE
  /\ sf2000_splash_timer = 0
  /\ fast_forward_audio_enabled = FALSE
  /\ use_cc_resampler = TRUE
  /\ resampler = [phase |-> 0, avail |-> 0, l |-> "NULL", r |-> "NULL"]
  /\ blend_frames = "NULL"
  /\ audio_out_buffer = << >>
  /\ audio_out_buffer_size = 0
  /\ audio_out_buffer_pos = 0
  /\ audio_batch_frames_max = AUDIO_BATCH_FRAMES_INIT
  /\ upload = [num_samples |-> 0, ptr |-> 0]
  /\ tick = NoTick
  /\ drain = NoDrain
  /\ host_fps = 1
  /\ libretro_supports_set_variable = FALSE
  /\ gambatte_audio_resampler = "sinc"
  /\ setup = NoSetup
  /\ frame_blend_type = "FRAME_BLEND_NONE"
  /\ video_buf = UninitialisedFrame
  /\ video_buf_prev = NoBuffers
  /\ frame = NoFrame
  /\ env = [ticks |-> 0, updates |-> 0, shorts |-> 0, edges |-> 0,
            loads |-> 0, shapes |-> {}, audio |-> {}, resampler |-> {},
            ok |-> {}, set_variable |-> FALSE, blend |-> {},
            pictures |-> {}, mallocs |-> 0]
  /\ g_fake_rtc = NoFakeRtc
  /\ g_fake_rtc_initialized = FALSE
  /\ \E file \in RtcFiles, opt \in RtcOptions :
       rtc_host = [NoRtcHost EXCEPT !.file = file, !.opt = opt]

RtcUnchanged ==
  UNCHANGED << pc, iters_left, samples_count, frames_count,
               sf2000_fastforward_state, sf2000_slowmotion_state,
               sf2000_select_a_prev, sf2000_select_b_prev,
               sf2000_slowmotion_frame_counter, sf2000_splash_shown,
               sf2000_splash_timer, fast_forward_audio_enabled,
               use_cc_resampler, resampler, blend_frames, audio_out_buffer,
               audio_out_buffer_size, audio_out_buffer_pos,
               audio_batch_frames_max, upload, tick, drain, host_fps,
               libretro_supports_set_variable, gambatte_audio_resampler,
               setup, video_vars, env >>

RtcCanCall == pc = "rtc" /\ rtc_host.calls < MaxRtcCalls

\* retro_load_game: the options as the host holds them are read and the
\* fake RTC is set up.
RtcLoad ==
  /\ RtcCanCall
  /\ RtcLoadGame(rtc_host.opt, 1)
  /\ RtcUnchanged

\* A tick: the clock has moved, retro_run_internal calls fake_rtc_update.
RtcTick ==
  /\ RtcCanCall
  /\ ~g_fake_rtc.null
  /\ \E seconds \in ClockSteps :
       RtcUpdate(AddInt32(rtc_host.now, seconds), 1)
  /\ RtcUnchanged

\* The user changes the options and check_variables reads them.
RtcOptionUpdate ==
  /\ RtcCanCall
  /\ ~g_fake_rtc.null
  /\ \E opt \in RtcOptions \ {rtc_host.opt} : RtcCheckVariables(opt, 1)
  /\ RtcUnchanged

\* fake_rtc_bump_time of the C interface
RtcBumpTime ==
  /\ RtcCanCall
  /\ ~g_fake_rtc.null
  /\ \E bump_minutes \in BumpArgs :
       RtcStep(fake_rtc_bump_time(World, bump_minutes), rtc_host.now,
               rtc_host.opt, RtcCall("bump_time", bump_minutes),
               rtc_host.reflected, 1)
  /\ RtcUnchanged

\* retro_deinit: fake_rtc_save
RtcDeinit ==
  /\ RtcCanCall
  /\ ~g_fake_rtc.null
  /\ RtcSave(1)
  /\ RtcUnchanged

\* The process ends and the library is loaded again: the statics are back
\* at their initialisers, the file and the options are what they were.  The
\* user may have changed the options in between.
RtcRestart ==
  /\ RtcCanCall
  /\ ~g_fake_rtc.null
  /\ g_fake_rtc' = NoFakeRtc
  /\ g_fake_rtc_initialized' = FALSE
  /\ \E opt \in RtcOptions :
       rtc_host' = [rtc_host EXCEPT !.opt = opt, !.calls = @ + 1,
                                    !.call = RtcCall("restart", 0),
                                    !.reflected = 0]
  /\ RtcUnchanged

RtcNext ==
  \/ Next
  \/ RtcLoad
  \/ RtcTick
  \/ RtcOptionUpdate
  \/ RtcBumpTime
  \/ RtcDeinit
  \/ RtcRestart

RtcSpec == (Init \/ RtcInit) /\ [][RtcNext]_vars

(******************************* the claims ********************************)
\* A call of retro_run_internal has returned.
TickDone == tick.kind # "none" /\ tick.done

\* floor(samples / samples_per_frame)
ExpectedFrames(samples) == samples \div SOUND_SAMPLES_PER_FRAME

\* The speed multiplier in effect under fast-forward state ff.
ActiveMultiplier(ff) == IF ff = 0 THEN 1 ELSE IF ff = 1 THEN 3 ELSE 5

\* C1: after every tick of retro_run_internal, in every speed state,
\* frames_count equals floor(samples_count / 35112).
C1_FramesMatchSamples ==
  TickDone => frames_count = ExpectedFrames(samples_count)

\* C2: a tick that begins with frames_count < samples_count / 35112 calls the
\* video sink exactly once, with the NULL buffer, width 160, height 144 and a
\* pitch of 256 pixels, and runs no emulation step, pushes nothing into the
\* resampler, writes nothing into the output buffer, does not upload, leaves
\* samples_count, the resampler and the buffer as they were and does not
\* blend; every other tick delivers the real video buffer, once.
C2_DupeTickOnlyRepeatsFrame ==
  /\ tick.kind = "dupe" =>
       /\ tick.frames0 < tick.samples0 \div 35112
       /\ tick.video = << [buf |-> "NULL", width |-> 160, height |-> 144,
                           pitch |-> 256] >>
       /\ tick.steps = 0 /\ tick.blocks = 0 /\ tick.pushed = 0
       /\ tick.writes = 0 /\ tick.written = 0 /\ tick.uploads = 0
       /\ ~tick.blended
       /\ samples_count = tick.samples0
       /\ audio_out_buffer_pos = 0 /\ audio_out_buffer = << >>
       /\ ~drain.ran /\ drain.batches = << >>
  /\ tick.kind = "frame" =>
       /\ ~(tick.frames0 < tick.samples0 \div 35112)
       /\ tick.video = << [buf |-> "video_buf", width |-> 160,
                           height |-> 144, pitch |-> 256] >>

C2_Witness ==
  /\ tick.kind = "dupe" /\ tick.done
  /\ resampler.phase > 0

\* C3: on a duplicate-frame tick frames_count is incremented by the speed
\* multiplier in effect: 1 at normal speed, the fast-forward multiplier while
\* a fast-forward level is active.
C3_DupeAdvancesByMultiplier ==
  (tick.kind = "dupe" /\ tick.done) =>
     frames_count = tick.frames0 + ActiveMultiplier(tick.ff)

\* C4: a tick whose emulation step does not take samples_count across the
\* next multiple of 35112 delivers the duplicate sentinel, and frames_count
\* grows by no more than the active speed multiplier (so that 70224 samples
\* produced over two ticks, none of them on the first, give one duplicate
\* and then one genuine frame).
C4_ShortStepDeliversDupe ==
  (TickDone /\ ~tick.splash
     /\ ExpectedFrames(samples_count) = ExpectedFrames(tick.samples0)) =>
       /\ tick.video = << VideoCall("NULL") >>
       /\ frames_count - tick.frames0 <= ActiveMultiplier(tick.ff)

RECURSIVE SumAccepted(_, _)
SumAccepted(batches, i) ==
  IF i = 0 THEN 0 ELSE batches[i].accepted + SumAccepted(batches, i - 1)

RECURSIVE SumOffered(_, _)
SumOffered(batches, i) ==
  IF i = 0 THEN 0 ELSE batches[i].len + SumOffered(batches, i - 1)

\* C5: whatever raw blocks the emulation core returns, of total length L,
\* the sink ends up accepting L samples' worth: every raw sample the core
\* returned in a tick went into the resampler, nothing else did, and every
\* frame the resampler wrote to the output buffer was accepted by the sink.
C5_AllSamplesDelivered ==
  (TickDone /\ tick.kind = "frame") =>
     /\ tick.pushed = tick.returned
     /\ SumAccepted(drain.batches, Len(drain.batches)) = tick.written \div 2

\* The elements written since the cursor was reset, in write order.
WrittenInOrder(n) == [i \in 1..n |-> i]

\* C6 as claimed: after any writes into the output buffer, reallocations
\* included, the upload that follows offers the sink exactly the written
\* elements in write order.
C6_DrainOffersWrites ==
  (TickDone /\ tick.kind = "frame") =>
     drain.offered = WrittenInOrder(tick.written)

\* C6 as amended: an upload that is not muted (no fast forward or slow motion
\* active, or audio during fast forward enabled) offers the sink exactly the
\* elements written since the cursor was last reset, in write order,
\* reallocations included; a muted upload offers nothing and drops them.
C6_UnmutedDrainOffersWrites ==
  (TickDone /\ tick.kind = "frame") =>
     /\ drain.ran <=> ~UploadMuted(tick.ff, tick.slow, tick.audio)
     /\ drain.ran => drain.offered = WrittenInOrder(tick.written)
     /\ ~drain.ran => drain.offered = << >>

C6_Witness ==
  /\ TickDone /\ drain.ran
  /\ tick.writes >= 2 /\ tick.regrown >= 1
  /\ Len(drain.offered) > OutBufferInitSize

\* C7: audio_out_buffer_pos never exceeds audio_out_buffer_size, and every
\* write and every blipper read of n frames, made right after
\* audio_out_buffer_resize(n), ends inside the allocation, whatever n, the
\* size of the buffer and the cursor were before.
C7_CursorInsideBuffer ==
  /\ audio_out_buffer_pos <= audio_out_buffer_size
  /\ Len(audio_out_buffer) <= audio_out_buffer_size
  /\ tick.inside

\* A write that found too little room behind written elements, on a
\* buffer that started smaller than the write.
C7_Witness ==
  /\ pc = "buffer" /\ tick.regrown >= 1 /\ tick.writes >= 2
  /\ audio_out_buffer_pos > MaxBufferSize
  /\ audio_out_buffer_pos <= audio_out_buffer_size
  /\ Len(audio_out_buffer) = audio_out_buffer_pos

\* C8: the frames of a batch the sink did not accept are offered again in
\* the same upload: the next batch starts at the first of them.
C8_UnacceptedOfferedAgain ==
  \A i \in DOMAIN drain.batches :
     drain.batches[i].accepted < drain.batches[i].len =>
        /\ i < Len(drain.batches) \/ pc = "upload"
        /\ i < Len(drain.batches) =>
             drain.batches[i + 1].start =
               drain.batches[i].start + (2 * drain.batches[i].accepted)

\* audio_batch_frames_max right after batch i of the running upload.
MaxAfterBatch(i) ==
  IF i < Len(drain.batches) THEN drain.batches[i + 1].max
  ELSE audio_batch_frames_max

\* C9 as claimed: whenever the sink accepts fewer frames than offered,
\* whatever the count, audio_batch_frames_max becomes that count.
C9_AcceptedBecomesCeiling ==
  ~tick.done =>
     \A i \in DOMAIN drain.batches :
        drain.batches[i].accepted < drain.batches[i].len =>
           MaxAfterBatch(i) = drain.batches[i].accepted

\* C9 as amended: whenever the sink accepts fewer frames than offered and at
\* least one, audio_batch_frames_max becomes that count (an answer of zero
\* leaves it as it was), no batch is larger than it, and it never grows
\* until check_variables sets the resampler and the buffer up again.
C9_PositiveAcceptedBecomesCeiling ==
  /\ ~tick.done =>
       \A i \in DOMAIN drain.batches :
          /\ (drain.batches[i].accepted < drain.batches[i].len
                /\ drain.batches[i].accepted > 0) =>
                MaxAfterBatch(i) = drain.batches[i].accepted
          /\ drain.batches[i].accepted = 0 =>
                MaxAfterBatch(i) = drain.batches[i].max
  /\ \A i \in DOMAIN drain.batches :
        /\ drain.batches[i].len <= drain.batches[i].max
        /\ drain.batches[i].max <= tick.max0
        /\ i > 1 => drain.batches[i].max <= drain.batches[i - 1].max
  /\ audio_batch_frames_max <= tick.max0 \/ (tick.done /\ tick.reinit)

\* A batch under a ceiling an earlier tick's short answer has set.
C9_Witness ==
  /\ pc = "tail" /\ Len(drain.batches) >= 2
  /\ tick.max0 < AUDIO_BATCH_FRAMES_INIT
  /\ drain.batches[1].accepted > 0
  /\ drain.batches[1].accepted < drain.batches[1].len
  /\ drain.batches[2].max = drain.batches[1].accepted
  /\ drain.batches[2].len = drain.batches[2].max

\* C10: every batch holds at most audio_batch_frames_max frames when it is
\* handed to the sink, the first batch starts at the start of the buffer,
\* each next one where the one before ended, and once the upload is over
\* the batch sizes add up to the frames the buffer held.
C10_BatchesAreConsecutiveSlices ==
  /\ \A i \in DOMAIN drain.batches :
        /\ drain.batches[i].len >= 1
        /\ drain.batches[i].len <= drain.batches[i].max
        /\ drain.batches[i].start =
             IF i = 1 THEN 0
             ELSE drain.batches[i - 1].start + (2 * drain.batches[i - 1].len)
  /\ SumOffered(drain.batches, Len(drain.batches)) <= drain.frames
  /\ pc # "upload" =>
       SumOffered(drain.batches, Len(drain.batches)) = drain.frames
  /\ (tick.kind = "frame" /\ drain.ran) => drain.frames = tick.written \div 2

C10_Witness ==
  /\ TickDone /\ Len(drain.batches) >= 3
  /\ drain.frames = tick.written \div 2
  /\ drain.batches[3].start = 2 * (drain.batches[1].len + drain.batches[2].len)

\* C11 as claimed: the write cursor goes back to 0 only after every
\* buffered element has been handed to the sink: written elements are never
\* dropped without having been offered.
C11_ResetOnlyAfterAllOffered ==
  (tick.kind = "frame" /\ audio_out_buffer_pos = 0) =>
     2 * SumOffered(drain.batches, Len(drain.batches)) = tick.written

\* C11 as amended: in an upload that is not muted the cursor goes back to 0
\* only after every buffered element has been handed to the sink (it stays
\* at the end of the written elements while batches are left); a muted
\* upload (fast forward or slow motion active, audio during fast forward
\* disabled) sets it to 0 at once and drops the buffered elements unoffered.
C11_ResetOnlyAfterAllOfferedUnlessMuted ==
  /\ (tick.kind = "frame" /\ audio_out_buffer_pos = 0
        /\ ~((tick.ff > 0 \/ tick.slow > 0) /\ ~tick.audio)) =>
       2 * SumOffered(drain.batches, Len(drain.batches)) = tick.written
  /\ (tick.kind = "frame" /\ (tick.ff > 0 \/ tick.slow > 0) /\ ~tick.audio) =>
       audio_out_buffer_pos = 0 /\ drain.batches = << >>
  /\ (tick.kind = "frame" /\ pc = "upload") =>
       /\ audio_out_buffer_pos = tick.written
       /\ 2 * SumOffered(drain.batches, Len(drain.batches)) < tick.written

\* The cursor back at 0 after an upload of several batches.
C11_Witness ==
  /\ pc = "tail" /\ tick.kind = "frame" /\ tick.written > 0
  /\ Len(drain.batches) >= 2
  /\ audio_out_buffer_pos = 0

\* C12: whenever retro_run_internal has returned, after any ticks and option
\* changes, the write cursor is 0: nothing written in a tick stays in the
\* buffer for the next tick or for a newly set up resampler backend.
C12_CursorZeroBetweenTicks ==
  (pc \in {"host", "internal", "tail"}) =>
     audio_out_buffer_pos = 0 /\ audio_out_buffer = << >>

\* A tick that wrote to the buffer and ended with the backend switched.
C12_Witness ==
  /\ TickDone /\ tick.kind = "frame" /\ tick.written > 0 /\ tick.reinit
  /\ audio_out_buffer_pos = 0

\* The chords of the poll the tick made: a rising edge is a chord that is
\* down now and was not down at the poll before.
RisingA == tick.chord_a /\ ~tick.a_prev0
RisingB == tick.chord_b /\ ~tick.b_prev0

\* C13 as claimed: every rising edge of SELECT+A takes the fast-forward state
\* one step along 0 -> 1 -> 2 -> 0.
C13_EdgeAdvancesFastForward ==
  (tick.kind # "none" /\ RisingA) => tick.ff = (tick.ff0 + 1) % 3

\* C13 as amended: a rising edge of SELECT+A with no rising edge of SELECT+B
\* in the same poll takes the fast-forward state one step along
\* 0 -> 1 -> 2 -> 0 (three such edges in a row return to Normal); when
\* SELECT+B rises in the same poll the state ends at 0; a poll with no rising
\* edge, the chord held or not, in whichever call of retro_run_internal,
\* leaves it as it was.
C13_EdgeAloneAdvancesFastForward ==
  tick.kind # "none" =>
     /\ (RisingA /\ ~RisingB) => tick.ff = (tick.ff0 + 1) % 3
     /\ (RisingA /\ RisingB) => tick.ff = 0
     /\ (~RisingA /\ ~RisingB) => tick.ff = tick.ff0
     /\ tick.done => sf2000_fastforward_state = tick.ff

\* The third edge in a row: from level 2 back to Normal, in a call of
\* retro_run that began in fast forward.
C13_Witness ==
  /\ tick.kind # "none" /\ RisingA /\ ~tick.chord_b
  /\ tick.ff0 = 2 /\ tick.ff = 0 /\ tick.run.level = 2

\* C14: the fast-forward and slow-motion states are never both non-zero: a
\* rising SELECT+A sets slow motion to 0, a rising SELECT+B sets fast
\* forward to 0, also when both rise in one poll.
C14_OneSpeedModeAtATime ==
  /\ ~(sf2000_fastforward_state > 0 /\ sf2000_slowmotion_state > 0)
  /\ tick.kind # "none" =>
       /\ ~(tick.ff > 0 /\ tick.slow > 0)
       /\ (RisingA /\ ~RisingB) => tick.slow = 0
       /\ RisingB => tick.ff = 0

\* Both chords rising in one poll, out of fast forward.
C14_Witness ==
  /\ tick.kind # "none" /\ RisingA /\ RisingB
  /\ tick.ff0 > 0 /\ tick.ff = 0 /\ tick.slow = 1

\* A call of retro_run has returned, having begun and stayed in fast forward.
FastForwardRunDone ==
  /\ pc = "host" /\ tick.run.calls > 0
  /\ tick.run.level > 0 /\ tick.run.steady

\* C15: in fast-forward level n, one call of retro_run runs exactly n + 1
\* emulation steps.
C15_StepsPerHostTick ==
  FastForwardRunDone => tick.run.steps = tick.run.level + 1

\* C16: on a non-duplicate tick in fast forward, splash period included,
\* frames_count grows by the number of emulation steps the tick ran.
C16_FramesAddedEqualStepsRun ==
  (TickDone /\ tick.kind = "frame" /\ tick.ff > 0) =>
     frames_count - tick.frames0 = tick.steps

\* C17: in fast forward one call of retro_run hands exactly one frame to
\* the video sink, the frame of its last emulation step.
C17_OneFramePerHostTick ==
  FastForwardRunDone => tick.run.videos = << "video_buf" >>

\* C18: on a fast-forward tick past the splash period, every raw sample the
\* emulation core returned has gone into the resampler, once.
C18_FastForwardPushesEveryBlock ==
  (TickDone /\ tick.kind = "frame" /\ tick.ff > 0 /\ ~tick.splash) =>
     tick.pushed = tick.returned

\* C19: on a tick with a fast-forward or slow-motion level active and audio
\* during fast forward disabled, no batch is handed to the audio sink; on
\* every other non-duplicate tick (speed Normal, or the option enabled) all
\* the tick has buffered is handed to the sink.
C19_MutedOnlyWhileSpeedChangedAndDisabled ==
  tick.kind = "frame" =>
     IF (tick.ff > 0 \/ tick.slow > 0) /\ ~tick.audio
     THEN ~drain.ran /\ drain.batches = << >> /\ pc # "upload"
     ELSE /\ drain.ran
          /\ tick.done =>
               2 * SumOffered(drain.batches, Len(drain.batches)) = tick.written

\* Slow motion or fast forward with the option enabled: the tick's samples
\* reach the sink.
C19_Witness ==
  /\ TickDone /\ tick.kind = "frame"
  /\ (tick.ff > 0 \/ tick.slow > 0) /\ tick.audio
  /\ Len(drain.batches) >= 1 /\ tick.written > 0

\* A non-duplicate tick in slow motion.
SlowMotionTick == tick.kind = "frame" /\ tick.ff = 0 /\ tick.slow > 0

\* Every 2nd tick at level 1, every 5th at level 2.
SlowMotionDivisor(level) == IF level = 1 THEN 2 ELSE 5

\* C20 as claimed: the first non-duplicate tick after a transition into a
\* slow-motion level always runs an emulation step (then every 2nd or every
\* 5th non-duplicate tick does).
C20_FirstSlowTickRunsStep ==
  (SlowMotionTick /\ (RisingA \/ RisingB)) => tick.steps = 1

\* C20 as amended: past the splash period, a non-duplicate tick in slow
\* motion runs an emulation step exactly when the number of such ticks since
\* the last rising edge of a chord is a multiple of 2 (level 1) or of 5
\* (level 2), the first of them always; every rising edge of a chord sets
\* the phase counter to 0, and ticks of the splash period run no step and do
\* not advance it.
C20_SlowMotionCadence ==
  /\ (SlowMotionTick /\ ~tick.splash) =>
       /\ (tick.steps = 1) <=>
            (tick.phase0 % SlowMotionDivisor(tick.slow) = 0)
       /\ tick.steps \in {0, 1}
       /\ (RisingA \/ RisingB) => tick.steps = 1
       /\ tick.phase = tick.phase0 + 1
  /\ (SlowMotionTick /\ tick.splash) =>
       tick.steps = 0 /\ tick.phase = tick.phase0
  /\ (tick.kind # "none" /\ (RisingA \/ RisingB)) => tick.phase0 = 0
  /\ tick.kind # "none" => sf2000_slowmotion_frame_counter = tick.phase

\* Level 2: the step that runs five ticks after the transition.
C20_Witness ==
  /\ TickDone /\ SlowMotionTick /\ ~tick.splash
  /\ tick.slow = 2 /\ tick.phase0 = 5 /\ tick.steps = 1


\* A slow-motion tick past the splash period that runs no emulation step.
SlowMotionSkipTick == SlowMotionTick /\ ~tick.splash /\ tick.steps = 0

\* C21: on a slow-motion tick that runs no emulation step the frame
\* delivered is the frame delivered before, the blend filter is not applied
\* again, nothing is pushed into the resampler and samples_count is
\* unchanged.
C21_SkipTickPushesNothing ==
  SlowMotionSkipTick =>
     /\ ~tick.blended
     /\ frame.out = frame.out0
     /\ tick.pushed = 0
     /\ samples_count = tick.samples0


\* C22: whenever a tick has returned, and after teardown, the fps the host
\* was last told equals the fps retro_get_system_av_info reports: every
\* change of the speed state that changes the one is notified in the same
\* tick.
C22_HostToldOfEveryFpsChange ==
  tick.done => host_fps = retro_get_system_av_info(sf2000_fastforward_state)

\* C23: at the first tick after every retro_load_game, samples_count and
\* frames_count are 0.
C23_CountersZeroAtFirstTick ==
  (tick.kind # "none" /\ tick.first) =>
     tick.samples0 = 0 /\ tick.frames0 = 0

\* A game is loaded: audio_resampler_init has returned and
\* audio_resampler_deinit has not run since.
ResamplerSetUp == pc \in {"host", "internal", "upload", "tail"}

\* C24: once audio_resampler_init has returned, either the cosine backend
\* is selected and both band-limited handles are NULL, or the band-limited
\* backend is selected and neither handle is NULL; after a construction
\* failure the cosine backend is selected and both handles are NULL; the
\* output buffer is initialised in both cases.
C24_BackendAndHandlesAgree ==
  ResamplerSetUp =>
     /\ \/ use_cc_resampler /\ resampler.l = "NULL" /\ resampler.r = "NULL"
        \/ ~use_cc_resampler /\ resampler.l # "NULL" /\ resampler.r # "NULL"
     /\ setup.failed =>
          use_cc_resampler /\ resampler.l = "NULL" /\ resampler.r = "NULL"
     /\ audio_out_buffer_size >= OutBufferInitSize
     /\ audio_batch_frames_max <= AUDIO_BATCH_FRAMES_INIT

\* C25: the "sinc resampler unsupported" notice is shown at most once in a
\* session, whatever option-update passes follow the failure.
C25_NoticeAtMostOncePerSession == setup.notices <= 1

\* C26 as claimed: every construction failure, at startup too, is followed
\* by a SET_SYSTEM_AV_INFO carrying the sample rate.
C26_EveryFailureNotifiesRate ==
  setup.failed => setup.av_info >= 1 /\ setup.rate = SampleRate

\* C26 as amended: a construction failure after a runtime option change is
\* followed by SET_SYSTEM_AV_INFO carrying the sample rate, once from
\* audio_resampler_init and once more from check_variables; a failure at
\* startup sends none, and the host has the timing from the query that
\* follows retro_load_game; a call that does not fail sends none of its own.
C26_RuntimeFailureNotifiesRate ==
  /\ (setup.failed /\ ~setup.startup) =>
       setup.av_info = 2 /\ setup.rate = SampleRate
  /\ (setup.failed /\ setup.startup) =>
       /\ setup.av_info = 0 /\ setup.rate = 0
       /\ (pc = "host" /\ tick.kind = "none") =>
            host_fps = retro_get_system_av_info(sf2000_fastforward_state)
  /\ (setup.calls > 0 /\ ~setup.failed /\ ~setup.startup) =>
       setup.av_info = 1

\* A failure after the user selected the band-limited backend at run time.
C26_Witness ==
  /\ TickDone /\ tick.reinit /\ setup.failed /\ ~setup.startup
  /\ use_cc_resampler /\ setup.av_info = 2


\* Frames equal in every visible pixel.
SameVisible(f, g) ==
  \A i \in 1..BufferPixels : Visible(i - 1) => f[i] = g[i]

\* C27: whenever the blend kind the option asks for is none (absent,
\* unknown or none, whatever was selected before), no kernel runs on the
\* frame of a tick, the frame is delivered as rendered and the retained
\* buffers are left alone.
C27_NoneIsPassthrough ==
  (tick.kind = "frame" /\ frame.kind = "FRAME_BLEND_NONE") =>
     /\ frame.fn = "NULL"
     /\ ~tick.blended
     /\ frame.out = frame.rendered
     /\ pc \in {"upload", "tail"} =>
          video_buf = frame.rendered /\ video_buf_prev = frame.prev0

\* A picture delivered as drawn after the filter was switched off: its
\* retained buffer is still there.
C27_Witness ==
  /\ tick.kind = "frame" /\ ~tick.splash /\ tick.steps > 0
  /\ frame.kind = "FRAME_BLEND_NONE"
  /\ Allocated(video_buf_prev) > 0
  /\ video_buf_prev[1] # ZeroFrame
  /\ frame.out = runFor(SplashFrame, Faint)


\* C28: at the first frame blended after the option changed to a kind
\* other than none, every retained buffer the kernel reads is allocated and
\* all zeros.
C28_ChangeStartsFromZeroedBuffers ==
  (frame.fn # "NULL" /\ frame.changed = 1) =>
     \A k \in BuffersUsed(frame.fn) : frame.prev0[k] = ZeroFrame

\* The first frame blended after a change from one filter straight to
\* another that uses the same buffer.
C28_Witness ==
  /\ tick.kind = "frame" /\ frame.changed = 1
  /\ frame.fn = "blend_frames_ultra_fast"
  /\ frame.from = "FRAME_BLEND_MIX"
  /\ frame.prev0[1] = ZeroFrame
  /\ video_buf_prev[1] # ZeroFrame


\* The colour channels of an RGB565 pixel.
RedField(p) == p \div 2048
GreenField(p) == (p \div 32) % 64
BlueField(p) == p % 32

\* The average of two channel values, halves rounded up.
RoundHalfUp(c, p) == (c + p + 1) \div 2

\* C29: in every pixel the kernel for other architectures works on, each
\* colour channel of the output is the average of the channel in the current
\* and in the retained pixel, halves rounded up, and the retained buffer then
\* holds the current pixel as it was before the blend (until the buffer is
\* set up anew).
C29_PortableMixRoundsHalfUp ==
  (pc = "kernel" /\ frame.fn = "blend_frames_mix_portable"
     /\ frame.feeds > 0) =>
     \A i \in 1..BufferPixels :
        Visible(i - 1) =>
          /\ RedField(frame.out[i]) =
               RoundHalfUp(RedField(frame.rendered[i]),
                           RedField(frame.prev0[1][i]))
          /\ GreenField(frame.out[i]) =
               RoundHalfUp(GreenField(frame.rendered[i]),
                           GreenField(frame.prev0[1][i]))
          /\ BlueField(frame.out[i]) =
               RoundHalfUp(BlueField(frame.rendered[i]),
                           BlueField(frame.prev0[1][i]))
          /\ video_buf_prev[1][i] = frame.rendered[i]

\* Full blue and white over the lowest bit of every channel: a blue sum of
\* 32 in one pixel, an odd sum above the channel's range in every channel of
\* the other.
C29_Witness ==
  /\ pc = "kernel" /\ frame.fn = "blend_frames_mix_portable"
  /\ frame.feeds > 0
  /\ frame.rendered[1] = 31 /\ frame.prev0[1][1] = 2081
  /\ frame.rendered[2] = 65535 /\ frame.prev0[1][2] = 2081
  /\ frame.out[1] = Pack(1, 0, 0) + 32 + 16
  /\ frame.out[2] = Pack(16, 16, 16)


\* C30 as claimed: a frame fed twice in a row to the mix kernel, the first
\* time on retained buffers as init_frame_blending left them, comes out
\* unchanged both times.
C30_SameFrameTwiceUnchanged ==
  (frame.fn \in MixKernels /\ frame.feeds = 2
     /\ frame.first_rendered # << >>
     /\ SameVisible(frame.first_rendered, frame.rendered)) =>
     /\ SameVisible(frame.first_out, frame.rendered)
     /\ SameVisible(frame.out, frame.rendered)

\* The second half alone: the frame comes out unchanged the second time.
C30_SecondFeedUnchanged ==
  (frame.fn \in MixKernels /\ frame.feeds = 2
     /\ frame.first_rendered # << >>
     /\ SameVisible(frame.first_rendered, frame.rendered)) =>
     SameVisible(frame.out, frame.rendered)


\* Channel n (1 red, 2 green, 3 blue) of a pixel, as the ghosting kernels
\* unpack it.
ChannelOf(n, p) == IF n = 1 THEN Red(p) ELSE IF n = 2 THEN Green(p) ELSE Blue(p)

VisiblePixels == {i \in 1..BufferPixels : Visible(i - 1)}

\* c * 256 + sum of w_i * (p_i - c), for channel n of pixel i of the frame
\* the accurate ghosting kernel last ran on.
GhostAccumulator(n, i) ==
  LET c == ChannelOf(n, frame.rendered[i])
  IN  (c * 256)
        + (85 * (ChannelOf(n, frame.prev0[1][i]) - c))
        + (28 * (ChannelOf(n, frame.prev0[2][i]) - c))
        + (9 * (ChannelOf(n, frame.prev0[3][i]) - c))
        + (3 * (ChannelOf(n, frame.prev0[4][i]) - c))

\* C31: every channel of every visible pixel the accurate ghosting kernel
\* delivers is (c*256 + sum of w_i*(p_i - c) + 128) >> 8 with the weights 85,
\* 28, 9, 3; the accumulator stays within 0 .. 31*256 and the result within
\* 0 .. 31 without the clamp; and the result is c when the four retained
\* values equal c.
C31_GhostChannelFormula ==
  frame.fn = "blend_frames_lcd_ghost" =>
    \A i \in VisiblePixels, n \in 1..3 :
      LET c == ChannelOf(n, frame.rendered[i])
          accum == GhostAccumulator(n, i)
          result == (accum + 128) \div 256
      IN  /\ frame_blend_response_int = << 85, 28, 9, 3 >>
          /\ accum \in 0..(31 * 256)
          /\ result \in 0..31
          /\ ChannelOf(n, frame.out[i]) = result
          /\ (\A k \in 1..4 : ChannelOf(n, frame.prev0[k][i]) = c)
                => ChannelOf(n, frame.out[i]) = c

\* A white pixel over four retained black ones comes out at 16 of 31 in
\* every channel, a black one over four retained white ones at 15.
C31_Witness ==
  /\ pc = "kernel" /\ frame.fn = "blend_frames_lcd_ghost"
  /\ \A k \in 1..4 : frame.prev0[k][1] = 65535 - frame.rendered[1]
  /\ frame.rendered[1] \in {0, 65535}
  /\ frame.out[1] = (IF frame.rendered[1] = 0 THEN Pack(15, 15, 15)
                     ELSE Pack(16, 16, 16))
  /\ frame.out0 # << >>


\* The accurate ghosting kernel ran on the last frame delivered and the
\* retained buffers are as it left them.
GhostJustRan == frame.fn = "blend_frames_lcd_ghost" /\ frame.feeds > 0

\* The frames the kernel has run on since init_frame_blending set the
\* buffers up are all known: frame.feeds of them, the first one
\* frame.first_rendered, the last one frame.rendered.
HistoryKnown == frame.first_rendered # << >> /\ frame.feeds \in 1..2

\* C32: after a call of the accurate ghosting kernel, in every visible pixel
\* buffer 1 holds the current pixel as it was before the blend and buffer k
\* holds what buffer k-1 held before the call (k = 2..4); so after m calls
\* since the buffers were set up, buffer k holds the unblended frame of k
\* calls ago, and zeros when fewer than k frames were seen.
C32_RetainedBuffersShift ==
  GhostJustRan =>
    \A i \in VisiblePixels :
      /\ video_buf_prev[1][i] = frame.rendered[i]
      /\ \A k \in 2..4 : video_buf_prev[k][i] = frame.prev0[k - 1][i]
      /\ HistoryKnown =>
            /\ video_buf_prev[2][i] =
                  (IF frame.feeds = 2 THEN frame.first_rendered[i] ELSE 0)
            /\ video_buf_prev[3][i] = 0
            /\ video_buf_prev[4][i] = 0

\* Two different frames since the buffers were set up: the second is in
\* buffer 1, the first in buffer 2, unblended, and buffers 3 and 4 still
\* hold zeros.
C32_Witness ==
  /\ GhostJustRan /\ HistoryKnown /\ frame.feeds = 2
  /\ frame.first_rendered[1] # frame.rendered[1]
  /\ frame.first_rendered[1] # 0
  /\ frame.out[1] # frame.rendered[1]
  /\ video_buf_prev[1][1] = frame.rendered[1]
  /\ video_buf_prev[2][1] = frame.first_rendered[1]
  /\ video_buf_prev[3][1] = 0


\* A filter is selected and a retained buffer its kernel reads is missing:
\* init_frame_blending returned at a failed allocation.
BlendInitFailed ==
  /\ frame_blend_type # "FRAME_BLEND_NONE"
  /\ \E k \in BuffersUsed(BlendFunctionOf(frame_blend_type)) :
       video_buf_prev[k] = NullBuffer

\* C33: when an allocation in init_frame_blending has failed the blend
\* function is unset; no kernel ever runs on a retained buffer that is NULL;
\* and the ticks that follow deliver the frame as rendered, once, and upload
\* audio as on any other tick.
C33_FailedAllocationLeavesUnblended ==
  /\ BlendInitFailed => blend_frames = "NULL"
  /\ frame.fn # "NULL" =>
       \A k \in BuffersUsed(frame.fn) : frame.prev0[k] # NullBuffer
  /\ (BlendInitFailed /\ tick.kind = "frame" /\ pc \in {"upload", "tail"}) =>
       /\ frame.fn = "NULL" /\ ~tick.blended
       /\ frame.out = frame.rendered
       /\ video_buf = frame.rendered
       /\ tick.video = << VideoCall("video_buf") >>
       /\ tick.uploads = 1

\* Accurate ghosting selected after mix with one allocation left: buffer 1
\* is there, buffer 2 is not, and a picture has gone out as drawn.
C33_Witness ==
  /\ BlendInitFailed /\ tick.kind = "frame" /\ pc = "tail"
  /\ frame_blend_type = "FRAME_BLEND_LCD_GHOSTING"
  /\ video_buf_prev[1] # NullBuffer /\ video_buf_prev[2] = NullBuffer
  /\ ~tick.splash /\ tick.steps > 0
  /\ frame.kind = "FRAME_BLEND_LCD_GHOSTING"
  /\ frame.out = frame.rendered


\* C34 as claimed: once the pipeline is torn down or the filter is switched
\* to none (frame_blend_type is FRAME_BLEND_NONE in both cases), every
\* retained buffer pointer is NULL and no allocation made for blending is
\* held.
C34_NoneHoldsNoBuffers ==
  frame_blend_type = "FRAME_BLEND_NONE" =>
    video_buf_prev = NoBuffers /\ Allocated(video_buf_prev) = 0

\* The half that is about teardown: retro_deinit leaves no retained buffer.
C34_TeardownReleases ==
  pc = "unloaded" => video_buf_prev = NoBuffers


\* C35 as claimed: on every frame and retained buffer a mix kernel is given,
\* the kernel built for MIPS (word by word over the first VIDEO_HEIGHT *
\* VIDEO_WIDTH pixels) and the portable one (the visible pixels of each row)
\* give the same delivered frame and the same retained buffer, and neither
\* touches a pixel outside the visible area.
C35_WideWordEqualsPortable ==
  (frame.fn \in MixKernels /\ frame.feeds > 0) =>
    /\ blend_frames_mix(frame.rendered, frame.prev0)
          = blend_frames_mix_portable(frame.rendered, frame.prev0)
    /\ \A i \in (1..BufferPixels) \ VisiblePixels :
          /\ blend_frames_mix(frame.rendered, frame.prev0).curr[i]
                = frame.rendered[i]
          /\ blend_frames_mix(frame.rendered, frame.prev0).prev[1][i]
                = frame.prev0[1][i]


\* C36 as claimed: samples_count is the number of sample pairs the core's
\* runFor calls have returned; tick by tick, a call of retro_run_internal
\* adds exactly what the steps it ran returned, and nothing when it ran
\* none (splash period, slow-motion skip, duplicate tick).
C36_SamplesCountIsTotalReturned ==
  /\ tick.kind = "frame" => samples_count = tick.samples0 + tick.returned
  /\ tick.kind = "dupe" => samples_count = tick.samples0

\* The part that holds: a duplicate tick adds nothing.
C36_DupeTickAddsNothing ==
  tick.kind = "dupe" => samples_count = tick.samples0 /\ tick.returned = 0


\* C37: the loop of audio_upload_samples ends whatever the sink answers (0,
\* less than, as many as, or more than it was offered): every iteration
\* offers at least one frame and takes what it offered off the count left,
\* so there are never more sink calls than buffered frames;
\* audio_batch_frames_max is at least 1 in every state and, from one buffer
\* initialisation to the next, never goes up.
C37_UploadEndsWithinItsFrames ==
  /\ audio_batch_frames_max >= 1
  /\ audio_batch_frames_max <= AUDIO_BATCH_FRAMES_INIT
  /\ \A i \in 1..Len(drain.batches) :
       /\ drain.batches[i].len >= 1
       /\ drain.batches[i].max >= 1
       /\ i > 1 => drain.batches[i].max <= drain.batches[i - 1].max
  /\ Len(drain.batches) <= drain.frames
  /\ pc = "upload" =>
       /\ upload.num_samples >= 1
       /\ upload.num_samples
            = drain.frames - SumOffered(drain.batches, Len(drain.batches))
       /\ Len(drain.batches) + upload.num_samples <= drain.frames
  /\ (pc = "tail" /\ drain.frames > 0) =>
       /\ upload.num_samples = 0
       /\ SumOffered(drain.batches, Len(drain.batches)) = drain.frames
  /\ (tick.kind = "frame" /\ ~tick.reinit) =>
       /\ audio_batch_frames_max <= tick.max0
       /\ \A i \in 1..Len(drain.batches) :
            /\ drain.batches[i].max <= tick.max0
            /\ audio_batch_frames_max <= drain.batches[i].max

\* An upload of two sink calls under a ceiling that an earlier tick
\* lowered: the sink answered the first offer with more than it was offered,
\* the ceiling stayed and the rest went out in the second call.
C37_Witness ==
  /\ pc = "tail" /\ Len(drain.batches) = 2
  /\ tick.max0 < AUDIO_BATCH_FRAMES_INIT
  /\ drain.batches[1].len = tick.max0
  /\ drain.batches[1].accepted > drain.batches[1].len
  /\ drain.batches[2].len = drain.frames - tick.max0
  /\ audio_batch_frames_max = tick.max0

\* The last call into the fake RTC was FakeRtc::update on an enabled clock.
UpdateJustRan ==
  /\ rtc_host.call.op = "update"
  /\ ~rtc_host.call.before.g.null
  /\ rtc_host.call.before.g.state_.enabled

\* The real seconds since last_real_time when the last call began, and
\* whether the clock had moved forward by then.
RealElapsed ==
  Sub32(rtc_host.now, rtc_host.call.before.g.state_.last_real_time)

ClockMovedForward ==
  Less32(rtc_host.call.before.g.state_.last_real_time, rtc_host.now)

\* C38: FakeRtc::update adds exactly floor(elapsed / 60) minutes, where
\* elapsed is the real seconds since last_real_time, and carries the
\* remainder in last_real_time; when the system clock has not moved forward,
\* set back included, total_minutes is what it was.
C38_UpdateFollowsRealTime ==
  UpdateJustRan =>
    LET before == rtc_host.call.before.g.state_
        after == g_fake_rtc.state_
    IN  IF ClockMovedForward
        THEN /\ after.total_minutes
                  = Add32(before.total_minutes, Div32(RealElapsed, 60))
             /\ Sub32(rtc_host.now, after.last_real_time)
                  = uint32_t(Mod32(RealElapsed, 60))
        ELSE after.total_minutes = before.total_minutes

\* The half of it that is about a clock that moved forward.
C38_ForwardClockFollowed ==
  (UpdateJustRan /\ ClockMovedForward) =>
    /\ g_fake_rtc.state_.total_minutes
         = Add32(rtc_host.call.before.g.state_.total_minutes,
                 Div32(RealElapsed, 60))
    /\ Sub32(rtc_host.now, g_fake_rtc.state_.last_real_time)
         = uint32_t(Mod32(RealElapsed, 60))

\* The last call was the set-up of retro_load_game, and FakeRtc::init ran
\* its body in it (first fake_rtc_init of the process, clock enabled).
InitJustRan == rtc_host.call.op = "load_game" /\ rtc_host.call.ran

\* C39: the configured persistent bump is in the fake time exactly once.
\* When FakeRtc::init has loaded a total that already holds reflected0
\* minutes of it (none for a fresh default, what was applied before the save
\* for a total read from the file), applying the configured value changes
\* the total by the configured value less reflected0: by nothing when the
\* value is unchanged, by the difference when it changed.
C39_PersistentBumpReflectedOnce ==
  InitJustRan =>
    rtc_host.call.time_after_persistent
      = AddInt32(rtc_host.call.time_after_load,
                 rtc_host.opt.persistent - rtc_host.call.reflected0)

\* The part of it that is about one process: a further fake_rtc_init does
\* not touch the total.
C39_RepeatedInitAddsNothing ==
  (rtc_host.call.op = "load_game" /\ ~rtc_host.call.ran
     /\ ~rtc_host.call.before.g.null)
    => g_fake_rtc.state_.total_minutes
         = rtc_host.call.before.g.state_.total_minutes

\* The last call was fake_rtc_bump_time on a constructed clock.
BumpJustRan ==
  rtc_host.call.op = "bump_time" /\ ~rtc_host.call.before.g.null

\* total0 bumped by bump_minutes without wrapping is total
BumpedExactly(total0, bump_minutes, total) ==
  IF bump_minutes >= 0
  THEN Sub32(total, total0) = uint32_t(bump_minutes) /\ ~Less32(total, total0)
  ELSE IF Less32(total0, uint32_t(0 - bump_minutes))
  THEN total = uint32_t(0)
  ELSE Sub32(total0, total) = uint32_t(0 - bump_minutes)

\* C40: FakeRtc::bump_time never wraps the minute counter.  A positive bump
\* adds exactly that many minutes, a negative bump larger than total_minutes
\* leaves 0, any other negative bump subtracts exactly, needs_save is set,
\* and a disabled clock is left as it was.  The bump_time call that
\* apply_persistent_bump makes in FakeRtc::init is held to the same.
C40_BumpTimeNeverWraps ==
  /\ BumpJustRan =>
       LET before == rtc_host.call.before.g.state_
           after == g_fake_rtc.state_
       IN  IF before.enabled
           THEN /\ BumpedExactly(before.total_minutes, rtc_host.call.arg,
                                 after.total_minutes)
                /\ after.needs_save
           ELSE after = before
  /\ InitJustRan =>
       BumpedExactly(rtc_host.call.time_after_load, rtc_host.opt.persistent,
                     rtc_host.call.time_after_persistent)

\* The parts of it that are not about a positive bump.
C40_NegativeBumpClamps ==
  (BumpJustRan /\ rtc_host.call.arg <= 0) =>
    LET before == rtc_host.call.before.g.state_
        after == g_fake_rtc.state_
    IN  IF before.enabled
        THEN /\ BumpedExactly(before.total_minutes, rtc_host.call.arg,
                              after.total_minutes)
             /\ after.needs_save
        ELSE after = before

C40_DisabledBumpChangesNothing ==
  (BumpJustRan /\ ~rtc_host.call.before.g.state_.enabled)
    => g_fake_rtc.state_ = rtc_host.call.before.g.state_

====
